---- MODULE Spec2Model ----
(***************************************************************************)
(* VRChat-FriendWatcher: the presence engine.                              *)
(*   core/realtime_ws.py  TokenBucket, WebSocketFriendSource               *)
(*   core/watcher.py      WatcherThread                                    *)
(*   core/vrc_client.py   VRChatClient.fetch_online_friends                *)
(* Time is counted in whole seconds.  Python's None is the record JNull    *)
(* among decoded JSON values and the empty string among optional strings   *)
(* (both are falsy wherever the code tests them); the id of a friend       *)
(* object, which the code also passes to str(), is a decoded value.        *)
(***************************************************************************)
EXTENDS Integers, Sequences, FiniteSets, TLC

VARIABLES
    ws,          \* the fields of one WebSocketFriendSource
    run,         \* WebSocketFriendSource.run: position and local variables
    stop_event,  \* threading.Event shared with on_stop
    now,         \* time.monotonic()
    wt,          \* the fields of one WatcherThread
    tb,          \* one TokenBucket on its own
    app,         \* app.py: the globals _ws_thread, _watcher, _stop_event and the position of on_stop
    obs          \* observation of the last step and of the history (not program state)

vars == <<ws, run, stop_event, now, wt, tb, app, obs>>

----------------------------------------------------------------------------
\* Bounds of the model

MaxTime == 3          \* the clock of a push session runs to this value
MaxQueue == 1         \* a handler runs while fewer events than this wait for the consumer
MaxAttempts == 9      \* connection attempts followed in the supervisor loop
MaxBucketTime == 125  \* the clock of the token bucket on its own
MaxApps == 3          \* push applications followed since the last replacement
MaxAbandoned == 1     \* drivers of earlier sessions followed while they are still alive
MaxFails == 8         \* consecutive failing pulls followed in the polling loop

----------------------------------------------------------------------------
\* Small helpers

Min(a, b) == IF a <= b THEN a ELSE b
Max(a, b) == IF a >= b THEN a ELSE b

RECURSIVE SeqToSet(_)
SeqToSet(s) == IF s = <<>> THEN {} ELSE {Head(s)} \cup SeqToSet(Tail(s))

RECURSIVE SortedSeq(_)
\* sorted(set_of_strings): ids are compared through their rank in IdOrder
IdOrder == <<"usr_1", "usr_2">>
Ids == SeqToSet(IdOrder)
Rank(u) == CHOOSE i \in 1..Len(IdOrder) : IdOrder[i] = u
SortedSeq(S) ==
    IF S = {} THEN <<>>
    ELSE LET m == CHOOSE x \in S : \A y \in S : Rank(x) <= Rank(y)
         IN <<m>> \o SortedSeq(S \ {m})

----------------------------------------------------------------------------
\* Event names and outbound events (kind, payload)

EVENT_ONLINE == "online"
EVENT_OFFLINE == "offline"
EVENT_ONLINE_NOW == "online_now"
EVENT_LIST_UPDATE == "list_update"
EVENT_HEARTBEAT == "heartbeat"
EVENT_ERROR == "error"

\* {"id": uid, "name": name}
Entry(uid, name) == [id |-> uid, name |-> name]
\* One queue item.  entries is the payload's list of {id, name}: a single dict
\* payload is the one-element list, a timestamp or message payload is empty.
Ev(kind, entries) == [kind |-> kind, entries |-> entries]

----------------------------------------------------------------------------
\* class TokenBucket

\* TokenBucket.__init__(capacity_per_min) at time t
TokenBucket(capacity_per_min, t) ==
    [capacity |-> capacity_per_min, tokens |-> capacity_per_min, reset_at |-> t + 60]

bucket_refill_mut_topup(b, t) ==
    IF t >= b.reset_at THEN [b EXCEPT !.tokens = b.capacity, !.reset_at = t + 60]
    ELSE [b EXCEPT !.tokens = Min(@ + 1, b.capacity)]

\* the window reset at the head of allow()
bucket_refill(b, t) ==
    IF t >= b.reset_at THEN [b EXCEPT !.tokens = b.capacity, !.reset_at = t + 60] ELSE b

allow_mut_refill_on_empty(b, n, t) ==
    LET b1 == IF t >= b.reset_at \/ b.tokens < n
              THEN [b EXCEPT !.tokens = b.capacity, !.reset_at = t + 60] ELSE b
    IN IF b1.tokens >= n
       THEN [bucket |-> [b1 EXCEPT !.tokens = @ - n], ok |-> TRUE]
       ELSE [bucket |-> b1, ok |-> FALSE]

\* allow that grants whenever a token is left, whatever the amount
allow_mut_overdraw(b, n, t) ==
    LET b1 == bucket_refill(b, t)
    IN IF b1.tokens >= Min(n, 1)
       THEN [bucket |-> [b1 EXCEPT !.tokens = @ - n], ok |-> TRUE]
       ELSE [bucket |-> b1, ok |-> FALSE]

allow_mut_drain(b, n, t) ==
    LET b1 == bucket_refill(b, t)
    IN IF b1.tokens >= n
       THEN [bucket |-> [b1 EXCEPT !.tokens = @ - n], ok |-> TRUE]
       ELSE [bucket |-> [b1 EXCEPT !.tokens = 0], ok |-> FALSE]

\* TokenBucket.allow(n) at time t: the bucket afterwards and the result
allow(b, n, t) ==
    LET b1 == bucket_refill(b, t)
    IN IF b1.tokens >= n
       THEN [bucket |-> [b1 EXCEPT !.tokens = @ - n], ok |-> TRUE]
       ELSE [bucket |-> b1, ok |-> FALSE]

----------------------------------------------------------------------------
\* Decoded JSON values, as json.loads produces them

JNull == [t |-> "null"]
JStr(s) == [t |-> "str", s |-> s]
JNum(n) == [t |-> "num", n |-> n]
JList(items) == [t |-> "list", items |-> items]
\* a dict is its key -> value map; Obj0 is {}
JDict(f) == [t |-> "dict", f |-> f]
Obj0 == JDict([k \in {} |-> JNull])
\* the str that json.dumps(v) writes: a text that json.loads turns back into v
JEnc(v) == [t |-> "str", s |-> "<json>", enc |-> v]

isinstance(x, type) == x.t = type

\* d.get(k)
get(d, k) == IF k \in DOMAIN d.f THEN d.f[k] ELSE JNull

\* bool(x)
Truthy(x) ==
    CASE x.t = "null" -> FALSE
      [] x.t = "str" -> x.s # ""
      [] x.t = "num" -> x.n # 0
      [] x.t = "list" -> x.items # <<>>
      [] x.t = "dict" -> DOMAIN x.f # {}

\* a or b
Or(a, b) == IF Truthy(a) THEN a ELSE b

\* json.loads(text): [ok, v]; a text that is no JSON document raises
json_loads(x) ==
    IF "enc" \in DOMAIN x THEN [ok |-> TRUE, v |-> x.enc] ELSE [ok |-> FALSE, v |-> JNull]

\* text.lstrip().startswith(("{", "["))
StartsWithBracket(x) ==
    IF "enc" \in DOMAIN x THEN x.enc.t \in {"dict", "list"} ELSE x.s \in {"{oops", "[oops"}

\* str.lower() on the spellings that occur
Lower(s) ==
    CASE s = "Friend-Online" -> "friend-online"
      [] s = "FRIEND-OFFLINE" -> "friend-offline"
      [] s = "Notification" -> "notification"
      [] s = "Online" -> "online"
      [] s = "Offline" -> "offline"
      [] OTHER -> s

\* str(x) for a str or None
PyStr(x) == IF x.t = "str" THEN x.s ELSE IF x.t = "null" THEN "None" ELSE "<repr>"

DecodeIfJsonText_mut_asis(x) == x

\* the "try: payload = json.loads(payload)" of a str that looks like JSON
DecodeIfJsonText(x) ==
    IF isinstance(x, "str") /\ StartsWithBracket(x) /\ json_loads(x).ok
    THEN json_loads(x).v
    ELSE x

OnlineTypes == {"friend-online", "friend_active", "friend-active", "user-online", "friend-location"}
OfflineTypes == {"friend-offline", "friend_offline", "user-offline"}

\* _uid_and_name that looks at the top level first
_uid_and_name_mut_top_first(p) ==
    IF ~isinstance(p, "dict") THEN [uid |-> JNull, name |-> JNull]
    ELSE LET user == Or(get(p, "user"), Obj0)
         IN [uid |-> Or(Or(get(p, "userId"), get(p, "userid")), get(p, "id")),
             name |-> Or(Or(Or(get(p, "displayName"), get(p, "username")), get(p, "name")),
                         IF isinstance(user, "dict") THEN get(user, "displayName") ELSE JNull)]

\* _uid_and_name(p) inside _handle_one_event
_uid_and_name(p) ==
    IF ~isinstance(p, "dict") THEN [uid |-> JNull, name |-> JNull]
    ELSE LET user == Or(get(p, "user"), Obj0)
         IN [uid |-> Or(Or(get(p, "userId"), get(p, "userid")), get(p, "id")),
             name |-> Or(Or(Or(IF isinstance(user, "dict") THEN get(user, "displayName") ELSE JNull,
                               get(p, "displayName")),
                            get(p, "username")),
                         get(p, "name"))]

\* _handle_one_event, the part that reads the message: the effective type and
\* the payload it leaves for the online/offline branches
EffectiveEvent(data) ==
    LET ev_type == Lower(PyStr(Or(Or(get(data, "type"), get(data, "event")), JStr(""))))
        payload0 == DecodeIfJsonText(get(data, "content"))
        unwrap == ev_type = "notification" /\ isinstance(payload0, "dict")
        inner_type == IF unwrap THEN Lower(PyStr(Or(get(payload0, "type"), JStr("")))) ELSE ""
        inner_content == IF unwrap THEN DecodeIfJsonText(get(payload0, "content")) ELSE JNull
        payload == IF unwrap /\ ~isinstance(inner_content, "null")
                   THEN Or(inner_content, payload0)
                   ELSE payload0
    IN [type |-> IF inner_type # "" THEN inner_type ELSE ev_type, payload |-> payload]

\* items = payload if isinstance(payload, list) else [payload]
ItemsOf(payload) == IF isinstance(payload, "list") THEN payload.items ELSE <<payload>>

----------------------------------------------------------------------------
\* VRChatClient.fetch_online_friends

\* Optional[Set[str]]: None, or a set of ids
NoFilter == [none |-> TRUE, ids |-> {}]
FilterOf(S) == [none |-> FALSE, ids |-> S]

page_size == 100

\* the paging loop: pages[i] is what get_friends answers for the i-th offset,
\* [ok |-> FALSE] when the call raises; a missing page is the empty answer
RECURSIVE GatherPages(_, _)
GatherPages(pages, i) ==
    IF i > Len(pages) THEN <<>>
    ELSE IF ~pages[i].ok THEN <<>>
    ELSE IF pages[i].items = <<>> THEN <<>>
    ELSE pages[i].items \o
         (IF Len(pages[i].items) < page_size THEN <<>> ELSE GatherPages(pages, i + 1))

\* one friend object of the SDK; an attribute that is None or missing is "",
\* and the id is JNull when it is None or missing, JStr(id) otherwise
FriendName(f) ==
    IF f.display_name # "" THEN f.display_name
    ELSE IF f.username # "" THEN f.username ELSE PyStr(f.id)
FriendIsOnline(f) ==
    LET status == Lower(IF f.status # "" THEN f.status ELSE f.state)
        location == Lower(f.location)
    IN status = "online" \/ (location # "" /\ location # "offline")

RECURSIVE OnlineEntries(_, _)
OnlineEntries(all_friends, only_ids) ==
    IF all_friends = <<>> THEN <<>>
    ELSE LET f == Head(all_friends)
             keep == FriendIsOnline(f)
                     /\ (only_ids.none \/ (Truthy(f.id) /\ PyStr(f.id) \in only_ids.ids))
         IN (IF keep THEN <<Entry(PyStr(f.id), FriendName(f))>> ELSE <<>>)
            \o OnlineEntries(Tail(all_friends), only_ids)

\* fetch_online_friends(only_ids) against the service state srv
fetch_online_friends(srv, only_ids) ==
    IF ~srv.authed THEN <<>>
    ELSE OnlineEntries(GatherPages(srv.pages, 1), only_ids)

\* what a caller's "try: friends = vrc.fetch_online_friends(...)" sees: the call
\* raised, or the list it returned
Pull(srv, only_ids) ==
    IF srv.raises THEN [raised |-> TRUE, friends |-> <<>>]
    ELSE [raised |-> FALSE, friends |-> fetch_online_friends(srv, only_ids)]

RECURSIVE EntryIds(_)
EntryIds(entries) == IF entries = <<>> THEN {} ELSE {Head(entries).id} \cup EntryIds(Tail(entries))

----------------------------------------------------------------------------
\* class WebSocketFriendSource: construction and state updates

HEARTBEAT == Ev(EVENT_HEARTBEAT, <<>>)

\* __init__ at time t
WebSocketFriendSource(ws_cfg, vrc, filter_ids, emit_legacy, t) ==
    [cfg |-> ws_cfg,
     has_vrc |-> vrc,
     filter_ids |-> IF ~filter_ids.none /\ filter_ids.ids # {} THEN filter_ids ELSE NoFilter,
     emit_legacy |-> emit_legacy,
     q |-> <<>>,
     prev_online_ids |-> {},
     known_names |-> [u \in Ids |-> ""],
     last_list_flush |-> 0,
     notify_bucket |-> TokenBucket(ws_cfg.notify_rate_per_min, t),
     next_resync_at |-> t + ws_cfg.periodic_rest_resync_sec,
     pending_changes |-> FALSE]

put(s, e) == [s EXCEPT !.q = Append(@, e)]

\* self._known_names.get(uid, uid); an id without a cached name maps to ""
name_of(s, uid) == IF s.known_names[uid] # "" THEN s.known_names[uid] ELSE uid

_is_target_mut_all(s, uid) == TRUE

_is_target(s, uid) == s.filter_ids.none \/ uid \in s.filter_ids.ids

_handle_online_mut_always(s, uid, t) ==
    IF ~_is_target(s, uid) THEN s
    ELSE put([s EXCEPT !.prev_online_ids = @ \cup {uid}, !.pending_changes = TRUE],
             Ev(EVENT_ONLINE, <<Entry(uid, name_of(s, uid))>>))

\* _handle_online that lets the bucket gate the Online event as well
_handle_online_mut_gated(s, uid, t) ==
    IF ~_is_target(s, uid) THEN s
    ELSE IF uid \notin s.prev_online_ids
    THEN LET name == name_of(s, uid)
             s1 == [s EXCEPT !.prev_online_ids = @ \cup {uid}, !.pending_changes = TRUE]
             a == allow(s1.notify_bucket, 1, t)
         IN IF a.ok
            THEN LET s2 == put([s1 EXCEPT !.notify_bucket = a.bucket], Ev(EVENT_ONLINE, <<Entry(uid, name)>>))
                 IN IF s2.emit_legacy THEN put(s2, Ev(EVENT_ONLINE_NOW, <<Entry(uid, name)>>)) ELSE s2
            ELSE [s1 EXCEPT !.notify_bucket = a.bucket]
    ELSE s

\* _handle_online
_handle_online(s, uid, t) ==
    IF ~_is_target(s, uid) THEN s
    ELSE IF uid \notin s.prev_online_ids
    THEN LET name == name_of(s, uid)
             s1 == put([s EXCEPT !.prev_online_ids = @ \cup {uid}, !.pending_changes = TRUE],
                       Ev(EVENT_ONLINE, <<Entry(uid, name)>>))
             a == allow(s1.notify_bucket, 1, t)
         IN IF ~s1.emit_legacy THEN s1
            ELSE IF a.ok
            THEN put([s1 EXCEPT !.notify_bucket = a.bucket], Ev(EVENT_ONLINE_NOW, <<Entry(uid, name)>>))
            ELSE [s1 EXCEPT !.notify_bucket = a.bucket]
    ELSE s

_handle_offline_mut_keep(s, uid) ==
    IF ~_is_target(s, uid) THEN s
    ELSE IF uid \in s.prev_online_ids
    THEN put([s EXCEPT !.pending_changes = TRUE], Ev(EVENT_OFFLINE, <<Entry(uid, name_of(s, uid))>>))
    ELSE s

_handle_offline(s, uid) ==
    IF ~_is_target(s, uid) THEN s
    ELSE IF uid \in s.prev_online_ids
    THEN put([s EXCEPT !.prev_online_ids = @ \ {uid}, !.pending_changes = TRUE],
             Ev(EVENT_OFFLINE, <<Entry(uid, name_of(s, uid))>>))
    ELSE s

\* [{"id": uid, "name": known_names.get(uid, uid)} for uid in sorted(prev_online_ids)]
RECURSIVE EntriesOf(_, _)
EntriesOf(s, uids) ==
    IF uids = <<>> THEN <<>>
    ELSE <<Entry(Head(uids), name_of(s, Head(uids)))>> \o EntriesOf(s, Tail(uids))

\* _flush_list_update
_flush_list_update(s, t) ==
    LET friends == EntriesOf(s, SortedSeq(s.prev_online_ids))
        s1 == IF s.emit_legacy THEN put(s, Ev(EVENT_LIST_UPDATE, friends)) ELSE s
    IN [s1 EXCEPT !.last_list_flush = t, !.pending_changes = FALSE]

\* for f in friends: self._known_names[f["id"]] = f["name"]
RECURSIVE CacheNames(_, _)
CacheNames(names, friends) ==
    IF friends = <<>> THEN names
    ELSE CacheNames([names EXCEPT ![Head(friends).id] = Head(friends).name], Tail(friends))

_resync_with_rest_mut_merge(s, pull, t) ==
    IF pull.raised THEN s
    ELSE LET rest_ids == EntryIds(pull.friends)
         IN IF rest_ids # s.prev_online_ids
            THEN _flush_list_update(
                     [s EXCEPT !.prev_online_ids = @ \cup rest_ids,
                               !.known_names = CacheNames(@, pull.friends)], t)
            ELSE s

\* _resync_with_rest; pull is the outcome of its fetch_online_friends call
_resync_with_rest(s, pull, t) ==
    IF pull.raised THEN s
    ELSE LET rest_ids == EntryIds(pull.friends)
         IN IF rest_ids # s.prev_online_ids
            THEN _flush_list_update(
                     [s EXCEPT !.prev_online_ids = rest_ids,
                               !.known_names = CacheNames(@, pull.friends)], t)
            ELSE s

----------------------------------------------------------------------------
\* WebSocketFriendSource: the transport callbacks

\* the loop bodies of the online and offline branches of _handle_one_event;
\* every id of the messages below is a str
RECURSIVE ApplyOnlineItems(_, _, _)
ApplyOnlineItems(s, items, t) ==
    IF items = <<>> THEN s
    ELSE LET un == _uid_and_name(Head(items))
             s1 == IF Truthy(un.uid) /\ Truthy(un.name)
                   THEN [s EXCEPT !.known_names[un.uid.s] = PyStr(un.name)]
                   ELSE s
             s2 == IF Truthy(un.uid) THEN _handle_online(s1, un.uid.s, t) ELSE s1
         IN ApplyOnlineItems(s2, Tail(items), t)

RECURSIVE ApplyOfflineItems(_, _)
ApplyOfflineItems(s, items) ==
    IF items = <<>> THEN s
    ELSE LET un == _uid_and_name(Head(items))
             s1 == IF Truthy(un.uid) THEN _handle_offline(s, un.uid.s) ELSE s
         IN ApplyOfflineItems(s1, Tail(items))

\* the branches of _handle_one_event on the effective type e.type
ApplyEvent(s, e, t) ==
    IF e.type \in OnlineTypes THEN ApplyOnlineItems(s, ItemsOf(e.payload), t)
    ELSE IF e.type \in OfflineTypes THEN ApplyOfflineItems(s, ItemsOf(e.payload))
    ELSE s

\* "if self._pending_changes and now - self._last_list_flush >= list_flush_interval"
FlushIfDue(s, t) ==
    IF s.pending_changes /\ t - s.last_list_flush >= s.cfg.list_flush_interval
    THEN _flush_list_update(s, t)
    ELSE s

\* _handle_one_event(data) at time t, up to the test that starts a resync:
\* the event is applied, the heartbeat put and the flush check made
_handle_one_event(s, data, t) ==
    IF ~isinstance(data, "dict") THEN s
    ELSE FlushIfDue(put(ApplyEvent(s, EffectiveEvent(data), t), HEARTBEAT), t)

\* "if self.vrc and now >= self._next_resync_at", reached once data is handled
ResyncDue(s, data, t) == isinstance(data, "dict") /\ s.has_vrc /\ t >= s.next_resync_at

\* the resync once its pull has answered, at time t1: _resync_with_rest reads
\* the clock itself when it flushes, and the next resync is counted from the
\* time t that _handle_one_event read before the pull
AfterPull(s, pull, t, t1) ==
    [_resync_with_rest(s, pull, t1) EXCEPT !.next_resync_at = t + s.cfg.periodic_rest_resync_sec]

\* how far a callback has come: the source, whether it waits for the pull of
\* a resync, and the elements of the frame it has not handled yet
Progress(s, pulling, rest) == [s |-> s, pulling |-> pulling, rest |-> rest]

RECURSIVE HandleEach(_, _, _)

\* the head of items is handled up to the resync test, s is the source then:
\* the callback waits for the pull of a resync, or goes on with the next element
Handled(s, items, t) ==
    IF ResyncDue(s, Head(items), t) THEN Progress(s, TRUE, Tail(items))
    ELSE HandleEach(s, Tail(items), t)

\* a loop over an array frame that handles its first element only
HandleEach_mut_first_only(s, items, t) ==
    IF items = <<>> THEN Progress(s, FALSE, <<>>)
    ELSE Handled(_handle_one_event(s, Head(items), t), <<Head(items)>>, t)

\* "for item in data: self._handle_one_event(item)" at time t, up to the
\* first pull of a resync
HandleEach(s, items, t) ==
    IF items = <<>> THEN Progress(s, FALSE, <<>>)
    ELSE Handled(_handle_one_event(s, Head(items), t), items, t)

\* _on_error
_on_error(s) == put(s, Ev(EVENT_ERROR, <<>>))

\* _on_message that reports a frame it cannot parse as an error
_on_message_mut_report(s, message, t) ==
    LET r == json_loads(message)
    IN IF ~r.ok THEN Progress(_on_error(s), FALSE, <<>>)
       ELSE IF isinstance(r.v, "str") THEN Progress(s, FALSE, <<>>)
       ELSE IF isinstance(r.v, "list") THEN HandleEach(s, r.v.items, t)
       ELSE IF isinstance(r.v, "dict") THEN HandleEach(s, <<r.v>>, t)
       ELSE Progress(s, FALSE, <<>>)

\* _on_message(message) at time t, up to the first pull of a resync
_on_message(s, message, t) ==
    LET r == json_loads(message)
    IN IF ~r.ok THEN Progress(s, FALSE, <<>>)
       ELSE IF isinstance(r.v, "str") THEN Progress(s, FALSE, <<>>)
       ELSE IF isinstance(r.v, "list") THEN HandleEach(s, r.v.items, t)
       ELSE IF isinstance(r.v, "dict") THEN HandleEach(s, <<r.v>>, t)
       ELSE Progress(s, FALSE, <<>>)

\* the callback goes on when the pull of its resync has answered at time t1
AfterResync(s, pull, t, rest, t1) == HandleEach(AfterPull(s, pull, t, t1), rest, t1)

\* the loop of _on_open over the pulled friends
RECURSIVE AddInitial(_, _)
AddInitial(s, friends) ==
    IF friends = <<>> THEN s
    ELSE AddInitial(put([s EXCEPT !.prev_online_ids = @ \cup {Head(friends).id}],
                        Ev(EVENT_ONLINE, <<Head(friends)>>)),
                    Tail(friends))

\* _on_open up to its pull: the heartbeat
_on_open(s) == put(s, HEARTBEAT)

\* _on_open once its pull has answered: the initial sync, or nothing when
\* the pull raised
InitialSync(s, pull) == IF pull.raised THEN s ELSE AddInitial(s, pull.friends)

\* the URL test at the head of _connect_and_loop
UrlUsable(url) == url = "wss://pipeline/?authToken=tok"

----------------------------------------------------------------------------
\* Inputs: the service's friend list and the push frames

NameOf == [u \in Ids |-> IF u = "usr_1" THEN "Nyx" ELSE "Rho"]
AltName == "Alt"

FriendObj(u, status, location) ==
    [id |-> JStr(u), display_name |-> NameOf[u], username |-> "", status |-> status, state |-> "",
     location |-> location]

\* the friends listed for the online set S: members are online by status or by
\* location, and usr_1 is also listed, as offline, when it is not in S
RECURSIVE ListedFriends(_, _)
ListedFriends(order, S) ==
    IF order = <<>> THEN <<>>
    ELSE LET u == Head(order)
             here == IF u \in S
                     THEN <<IF u = "usr_1" THEN FriendObj(u, "Online", "private")
                            ELSE FriendObj(u, "active", "wrld_1")>>
                     ELSE IF u = "usr_1" THEN <<FriendObj(u, "offline", "offline")>>
                     ELSE <<>>
         IN here \o ListedFriends(Tail(order), S)

Service(S) == [raises |-> FALSE, authed |-> TRUE, pages |-> <<[ok |-> TRUE, items |-> ListedFriends(IdOrder, S)]>>]
ServiceDown == [raises |-> FALSE, authed |-> TRUE, pages |-> <<[ok |-> FALSE, items |-> <<>>]>>]
ServiceRaises == [raises |-> TRUE, authed |-> TRUE, pages |-> <<>>]
Services == {Service(S) : S \in SUBSET Ids} \cup {ServiceDown, ServiceRaises}

\* the pull of this service state fails: fetch_online_friends raises, or a
\* get_friends page request raises inside it
PullFails(srv) == srv.raises \/ \E i \in DOMAIN srv.pages : ~srv.pages[i].ok

EventObj(type, content) == JDict(("type" :> JStr(type)) @@ ("content" :> content))
IdOnly(idkey, u) == JDict(idkey :> JStr(u))
IdAndName(idkey, u, namekey, n) == JDict((idkey :> JStr(u)) @@ (namekey :> JStr(n)))

\* a frame is the text raw with a description of how it was built
Frame(cls, kind, u, n, raw) == [cls |-> cls, kind |-> kind, uid |-> u, name |-> n, raw |-> raw]

\* every spelling is tried on usr_1, one on the other ids
Spellings(u, all, one) == IF u = "usr_1" THEN all ELSE {one}

\* {"type": T, "content": {"userId": u}}
DirectOnline ==
    {Frame("direct", "online", x[1], "", JEnc(EventObj(x[2], IdOnly("userId", x[1])))) :
        x \in {y \in Ids \X (OnlineTypes \cup {"Friend-Online"}) :
                  y[2] \in Spellings(y[1], OnlineTypes \cup {"Friend-Online"}, "friend-online")}}
\* {"type": "friend-online", "content": {"userId": u, "displayName": n}}
DirectOnlineNamed ==
    {Frame("direct", "online", u, NameOf[u],
           JEnc(EventObj("friend-online", IdAndName("userId", u, "displayName", NameOf[u])))) :
        u \in Ids}
\* {"type": T, "content": {"userId": u}}
DirectOffline ==
    {Frame("direct", "offline", x[1], "", JEnc(EventObj(x[2], IdOnly("userId", x[1])))) :
        x \in {y \in Ids \X OfflineTypes : y[2] \in Spellings(y[1], OfflineTypes, "friend-offline")}}
\* {"type": "friend-online", "content": "{\"userId\": u, \"user\": {\"displayName\": n}}"}
Pipeline ==
    {Frame("pipeline", "online", "usr_1", AltName,
           JEnc(EventObj("friend-online",
                JEnc(JDict(("userId" :> JStr("usr_1"))
                           @@ ("user" :> JDict("displayName" :> JStr(AltName))))))))}
\* {"type": "friend-online", "content": {"userId": u, "displayName": n, "user": {"displayName": "Alt"}}}
BothNames ==
    {Frame("both", "online", u, NameOf[u],
           JEnc(EventObj("friend-online",
                JDict(("userId" :> JStr(u)) @@ ("displayName" :> JStr(NameOf[u]))
                      @@ ("user" :> JDict("displayName" :> JStr(AltName))))))) :
        u \in Ids}
\* {"type": "notification", "content": "{\"type\": T, idkey: u, \"displayName\": n}"}
IdKeys == {"userId", "userid", "id"}
Envelope(T, idkey, u, n) ==
    JEnc(EventObj("notification",
         JEnc(JDict(("type" :> JStr(T)) @@ (idkey :> JStr(u)) @@ ("displayName" :> JStr(n))))))
EnvelopeOnline ==
    {Frame("envelope", "online", x[1], NameOf[x[1]], Envelope(x[2], x[3], x[1], NameOf[x[1]])) :
        x \in {y \in Ids \X OnlineTypes \X IdKeys :
                  /\ y[2] \in Spellings(y[1], OnlineTypes, "friend-online")
                  /\ y[3] \in Spellings(y[1], IdKeys, "userId")}}
\* frames that carry no event
Inert ==
    {Frame("bad", "none", "", "", JStr("oops")),
     Frame("string", "none", "", "", JEnc(JStr("pong"))),
     Frame("unknown", "none", "", "", JEnc(JDict("type" :> JStr("ping")))),
     Frame("empty", "none", "", "", JEnc(JList(<<>>)))}
\* [e1, e2]
Arrays ==
    {Frame("array", "none", "", "",
           JEnc(JList(<<EventObj("friend-online", IdOnly("userId", "usr_1")),
                        EventObj("friend-offline", IdOnly("userId", "usr_1"))>>))),
     Frame("array", "none", "", "",
           JEnc(JList(<<JStr("x"), EventObj("friend-online", IdOnly("id", "usr_2"))>>)))}

\* every frame, and the frames of the sessions that also follow the clock and
\* the reconnects (one spelling of each shape)
AllFrames == DirectOnline \cup DirectOnlineNamed \cup DirectOffline \cup Pipeline
             \cup EnvelopeOnline \cup Inert \cup Arrays \cup BothNames
Frames == {f \in AllFrames : f.raw \in {JEnc(EventObj("friend-online", IdOnly("userId", f.uid))),
                                         JEnc(EventObj("friend-offline", IdOnly("userId", f.uid))),
                                         Envelope("friend-online", "userId", f.uid, f.name)}}
          \cup DirectOnlineNamed \cup Pipeline \cup Inert \cup Arrays

----------------------------------------------------------------------------
\* WebSocketFriendSource.run and the session around it

GoodUrl == "wss://pipeline/?authToken=tok"
\* a URL with no authToken parameter
NoTokenUrl == "wss://pipeline/"

\* WebSocketConfig of the push sessions followed here (seconds)
PushCfg ==
    [url |-> GoodUrl, reconnect_initial |-> 3, reconnect_max |-> 3,
     list_flush_interval |-> 2, notify_rate_per_min |-> 1, periodic_rest_resync_sec |-> 2]

\* run() begun on the thread start() has created: backoff = reconnect_initial,
\* its first loop test still to come.  While a callback waits for a pull,
\* now and rest are its locals: the time _handle_one_event read and the
\* elements of the frame that are still to come.
RunStart(cfg) ==
    [pc |-> "started", backoff |-> cfg.reconnect_initial, wait |-> 0, now |-> 0, rest |-> <<>>]

\* the first test of "while not self.stop_event.is_set()": with the stop
\* signal set, run() returns with no connection attempt and no event
LoopTest(r, stopped) == [r EXCEPT !.pc = IF stopped THEN "stopped" ELSE "connecting"]

\* the driver is inside a callback, waiting for the answer of a pull
Pulling == run.pc \in {"opening", "resyncing"}

\* the driver after a part of _on_message: inside the pull of a resync, or
\* back in run_forever
InCallback(r, p, t) ==
    IF p.pulling THEN [r EXCEPT !.pc = "resyncing", !.now = t, !.rest = p.rest]
    ELSE [r EXCEPT !.pc = "connected", !.now = 0, !.rest = <<>>]

\* a supervisor that gives up once the wait has reached reconnect_max
AfterDisconnect_mut_give_up(r, cfg, stopped) ==
    IF stopped \/ r.backoff >= cfg.reconnect_max THEN [r EXCEPT !.pc = "stopped"]
    ELSE [r EXCEPT !.wait = Min(r.backoff, cfg.reconnect_max), !.pc = "sleeping"]

\* the except branch of run(): stop, or take the unjittered wait and sleep
AfterDisconnect(r, cfg, stopped) ==
    IF stopped THEN [r EXCEPT !.pc = "stopped"]
    ELSE [r EXCEPT !.wait = Min(r.backoff, cfg.reconnect_max), !.pc = "sleeping"]

AfterSleep_mut_linear(r, cfg, stopped) ==
    [r EXCEPT !.backoff = Min(r.backoff + cfg.reconnect_initial, cfg.reconnect_max),
              !.pc = IF stopped THEN "stopped" ELSE "connecting"]

AfterSleep_mut_nostop(r, cfg, stopped) ==
    [r EXCEPT !.backoff = Min(r.backoff * 2, cfg.reconnect_max), !.pc = "connecting"]

\* after _sleep_with_stop: backoff = min(backoff * 2, reconnect_max), and the
\* loop test "while not self.stop_event.is_set()"
AfterSleep(r, cfg, stopped) ==
    [r EXCEPT !.backoff = Min(r.backoff * 2, cfg.reconnect_max),
              !.pc = IF stopped THEN "stopped" ELSE "connecting"]

\* placeholders of the objects a specification does not drive
NoWatcher == [q |-> <<>>]
NoBucket == [capacity |-> 0, tokens |-> 0, reset_at |-> 0]
NoSource == [q |-> <<>>]
NoRun == [pc |-> "none"]
NoApp == [pc |-> "none"]

\* number of list_update events among the events e
RECURSIVE CountKind(_, _)
CountKind(e, kind) ==
    IF e = <<>> THEN 0
    ELSE (IF Head(e).kind = kind THEN 1 ELSE 0) + CountKind(Tail(e), kind)

NewEvents(pre, post) == SubSeq(post.q, Len(pre.q) + 1, Len(post.q))

\* Observation of a callback of the push session: which callback ran on
\* which input ("pulling" while it waits for a pull), the presence set
\* before it, the events it has enqueued, what the pull answered, and the
\* times of the two latest list_update emissions (-1: none yet)
Obs0 ==
    [op |-> "none", cls |-> "", kind |-> "", uid |-> "", pre_prev |-> {},
     sent |-> <<>>, resync |-> "none", pull_ids |-> {}, lu_prev |-> -1, lu_last |-> -1]

\* a step of the consumer or the clock: the callback in progress stays observed
Quiet(o) == IF Pulling THEN o ELSE [Obs0 EXCEPT !.lu_prev = o.lu_prev, !.lu_last = o.lu_last]

\* a callback begins: its part from pre to post, at time t
Observe(o, op, frame, pre, post, t) ==
    LET k == CountKind(NewEvents(pre, post), EVENT_LIST_UPDATE)
    IN [op |-> op, cls |-> frame.cls, kind |-> frame.kind, uid |-> frame.uid,
        pre_prev |-> pre.prev_online_ids, sent |-> NewEvents(pre, post),
        resync |-> "none", pull_ids |-> {},
        lu_prev |-> IF k = 0 THEN o.lu_prev ELSE IF k = 1 THEN o.lu_last ELSE t,
        lu_last |-> IF k = 0 THEN o.lu_last ELSE t]

\* its pull has answered: the part from pre to post, at time t
ObserveReturn(o, op, pre, post, t, resync, pull_ids) ==
    LET k == CountKind(NewEvents(pre, post), EVENT_LIST_UPDATE)
    IN [o EXCEPT !.op = op, !.sent = @ \o NewEvents(pre, post),
                 !.resync = resync, !.pull_ids = pull_ids,
                 !.lu_prev = IF k = 0 THEN o.lu_prev ELSE IF k = 1 THEN o.lu_last ELSE t,
                 !.lu_last = IF k = 0 THEN o.lu_last ELSE t]

NoFrame == Frame("", "", "", "", JNull)

\* _connect_and_loop ends without the connection having opened: the URL is
\* refused (ValueError), or the handshake fails (_on_error, then run_forever returns)
ConnectFailsStep ==
    /\ run.pc = "connecting"
    /\ Len(ws.q) < MaxQueue
    /\ ws' = IF UrlUsable(ws.cfg.url) THEN _on_error(ws) ELSE ws
    /\ run' = AfterDisconnect(run, ws.cfg, stop_event)
    /\ UNCHANGED <<stop_event, now, wt, tb, app>>

\* the thread begins: run() makes its first loop test
RunBeginsStep ==
    /\ run.pc = "started"
    /\ run' = LoopTest(run, stop_event)
    /\ UNCHANGED <<ws, stop_event, now, wt, tb, app>>

\* the handshake succeeds: _on_open puts its heartbeat and, with a pull
\* collaborator, calls fetch_online_friends; the consumer and the clock go
\* on while the driver waits for the answer
ConnectOpensStep ==
    /\ run.pc = "connecting"
    /\ UrlUsable(ws.cfg.url)
    /\ Len(ws.q) < MaxQueue
    /\ ws' = _on_open(ws)
    /\ run' = [run EXCEPT !.pc = IF ws.has_vrc THEN "opening" ELSE "connected"]
    /\ UNCHANGED <<stop_event, now, wt, tb, app>>

\* the pull of _on_open answers, with the service in state srv
OpenReturnsStep(srv) ==
    /\ run.pc = "opening"
    /\ ws' = InitialSync(ws, Pull(srv, ws.filter_ids))
    /\ run' = [run EXCEPT !.pc = "connected"]
    /\ UNCHANGED <<stop_event, now, wt, tb, app>>

\* one frame arrives: _on_message, up to the pull of a resync when one is due
MessageStep(frame) ==
    /\ run.pc = "connected"
    /\ Len(ws.q) < MaxQueue
    /\ \E p \in {_on_message(ws, frame.raw, now)} :
           /\ ws' = p.s
           /\ run' = InCallback(run, p, now)
    /\ UNCHANGED <<stop_event, now, wt, tb, app>>

\* the pull of a resync answers, with the service in state srv: the resync
\* is applied and the callback goes on with the rest of its frame
ResyncReturnsStep(srv) ==
    /\ run.pc = "resyncing"
    /\ \E p \in {AfterResync(ws, Pull(srv, ws.filter_ids), run.now, run.rest, now)} :
           /\ ws' = p.s
           /\ run' = InCallback(run, p, now)
    /\ UNCHANGED <<stop_event, now, wt, tb, app>>


\* the connection ends, by an error (_on_error, _on_close) or a close (_on_close):
\* run_forever returns and run() goes to its except branch
ConnectionEndsStep ==
    /\ run.pc = "connected"
    /\ Len(ws.q) < MaxQueue
    /\ \E error \in BOOLEAN : ws' = IF error THEN _on_error(ws) ELSE ws
    /\ run' = AfterDisconnect(run, ws.cfg, stop_event)
    /\ UNCHANGED <<stop_event, now, wt, tb, app>>

\* _sleep_with_stop returns: the time is up or the stop signal is set
SleepEndsStep ==
    /\ run.pc = "sleeping"
    /\ run' = AfterSleep(run, ws.cfg, stop_event)
    /\ UNCHANGED <<ws, stop_event, now, wt, tb, app>>

\* on_stop sets the stop signal
SetStopStep ==
    /\ ~stop_event
    /\ stop_event' = TRUE
    /\ UNCHANGED <<ws, run, now, wt, tb, app>>

\* a consumer that also resets the pending flag of the source
ConsumeStep_mut_touches_source ==
    /\ ws.q # <<>>
    /\ ws' = [ws EXCEPT !.q = <<>>, !.pending_changes = FALSE]
    /\ UNCHANGED <<run, stop_event, now, wt, tb, app>>

\* the consumer drains the queue (MainWindow._drain_queue)
ConsumeStep ==
    /\ ws.q # <<>>
    /\ ws' = [ws EXCEPT !.q = <<>>]
    /\ UNCHANGED <<run, stop_event, now, wt, tb, app>>

\* one second passes
TickStep ==
    /\ now < MaxTime
    /\ now' = now + 1
    /\ UNCHANGED <<ws, run, stop_event, wt, tb, app>>

----------------------------------------------------------------------------
\* Spec: push sessions with their clock, resyncs and reconnects

ConnectFails ==
    /\ ConnectFailsStep
    /\ obs' = [Quiet(obs) EXCEPT !.op = "connect_failed"]

ConnectOpens ==
    /\ ConnectOpensStep
    /\ obs' = Observe(obs, IF run'.pc = "opening" THEN "pulling" ELSE "on_open", NoFrame, ws, ws', now)

OpenReturns ==
    \E srv \in Services :
        /\ OpenReturnsStep(srv)
        /\ obs' = ObserveReturn(obs, "on_open", ws, ws', now,
                                IF srv.raises THEN "none" ELSE "ok",
                                EntryIds(Pull(srv, ws.filter_ids).friends))

Message(frames) ==
    \E frame \in frames :
        /\ MessageStep(frame)
        /\ obs' = Observe(obs, IF run'.pc = "resyncing" THEN "pulling" ELSE "on_message",
                          frame, ws, ws', now)

OnMessage == Message(Frames)

ResyncReturns ==
    \E srv \in Services :
        /\ ResyncReturnsStep(srv)
        /\ obs' = ObserveReturn(obs, IF run'.pc = "resyncing" THEN "pulling" ELSE "on_message",
                                ws, ws', now, IF srv.raises THEN "raised" ELSE "ok",
                                EntryIds(Pull(srv, ws.filter_ids).friends))

ConnectionEnds ==
    /\ ConnectionEndsStep
    /\ obs' = [Quiet(obs) EXCEPT !.op = "disconnected"]

SleepEnds == SleepEndsStep /\ obs' = Quiet(obs)

Consume == ConsumeStep /\ obs' = Quiet(obs)

Tick == TickStep /\ obs' = Quiet(obs)

\* the sessions followed: <<vrc given, filter_ids, emit_legacy>>; the first three
\* are the ones on_start creates (all friends, a favourite group, an empty group)
Sessions ==
    {<<TRUE, NoFilter, FALSE>>, <<TRUE, FilterOf({"usr_1"}), FALSE>>, <<TRUE, FilterOf({}), FALSE>>,
     <<TRUE, FilterOf({"usr_1"}), TRUE>>, <<FALSE, NoFilter, FALSE>>}

\* a session constructed and started at time 0 whose thread has made its
\* first loop test, in the specifications that never set the stop signal;
\* no observation yet
Started(source, o) ==
    /\ ws = source
    /\ run = LoopTest(RunStart(source.cfg), FALSE)
    /\ stop_event = FALSE
    /\ now = 0
    /\ wt = NoWatcher
    /\ tb = NoBucket
    /\ app = NoApp
    /\ obs = o

Init == \E c \in Sessions : Started(WebSocketFriendSource(PushCfg, c[1], c[2], c[3], 0), Obs0)

Next ==
    \/ ConnectFails
    \/ ConnectOpens
    \/ OpenReturns
    \/ OnMessage
    \/ ResyncReturns
    \/ ConnectionEnds
    \/ SleepEnds
    \/ Consume
    \/ Tick

Spec == Init /\ [][Next]_vars

----------------------------------------------------------------------------
\* SpecNorm: one connection at a fixed instant, every frame shape

OnAnyMessage == Message(AllFrames)

NextNorm ==
    \/ ConnectOpens
    \/ OpenReturns
    \/ OnAnyMessage
    \/ Consume

SpecNorm == Init /\ [][NextNorm]_vars

----------------------------------------------------------------------------
\* SpecRun: the supervisor loop of run(), over several reconnect settings

RunCfg(url, initial, max) ==
    [PushCfg EXCEPT !.url = url, !.reconnect_initial = initial, !.reconnect_max = max]

\* <<url, reconnect_initial, reconnect_max>>; the first is what on_start passes
RunSettings ==
    {<<GoodUrl, 3, 300>>, <<GoodUrl, 1, 1>>, <<GoodUrl, 2, 5>>, <<GoodUrl, 0, 4>>, <<"", 2, 5>>}

\* Observation of the loop: the unjittered waits taken so far, in order, and
\* whether the connection of the current (or just ended) attempt has opened
RunObs0 == [waits |-> <<>>, opened |-> FALSE]

Waited(o) == IF run'.pc = "sleeping" THEN [o EXCEPT !.waits = Append(@, run'.wait)] ELSE o

RunBegins == RunBeginsStep /\ UNCHANGED obs

RunConnectFails ==
    /\ Len(obs.waits) < MaxAttempts
    /\ ConnectFailsStep
    /\ obs' = Waited(obs)

RunConnectOpens ==
    /\ ConnectOpensStep
    /\ obs' = [obs EXCEPT !.opened = TRUE]

RunOpenReturns ==
    \E srv \in Services :
        /\ OpenReturnsStep(srv)
        /\ UNCHANGED obs

RunConnectionEnds ==
    /\ Len(obs.waits) < MaxAttempts
    /\ ConnectionEndsStep
    /\ obs' = Waited(obs)

RunSleepEnds == SleepEndsStep /\ obs' = [obs EXCEPT !.opened = FALSE]

RunStop == SetStopStep /\ UNCHANGED obs

RunConsume == ConsumeStep /\ UNCHANGED obs

\* a session constructed and its thread started: on_stop may come before the
\* thread has made its first loop test
InitRun ==
    \E c \in RunSettings :
        /\ ws = WebSocketFriendSource(RunCfg(c[1], c[2], c[3]), TRUE, NoFilter, FALSE, 0)
        /\ run = RunStart(ws.cfg)
        /\ stop_event = FALSE
        /\ now = 0
        /\ wt = NoWatcher
        /\ tb = NoBucket
        /\ app = NoApp
        /\ obs = RunObs0

NextRun ==
    \/ RunBegins
    \/ RunConnectFails
    \/ RunConnectOpens
    \/ RunOpenReturns
    \/ RunConnectionEnds
    \/ RunSleepEnds
    \/ RunStop
    \/ RunConsume

SpecRun == InitRun /\ [][NextRun]_vars

----------------------------------------------------------------------------
\* SpecBucket: one TokenBucket on its own, called at non-decreasing times

\* <<capacity_per_min, seconds between two instants the clock visits>>
BucketSettings == {<<1, 1>>, <<2, 10>>, <<3, 20>>}

\* Observation of the bucket: the clock's step, the times of the granted calls
\* of the last 60 seconds (g with now - g < 60) and the number of calls
\* granted since the bucket last refilled
BucketObs0(step) == [step |-> step, recent |-> <<>>, in_window |-> 0, last_ok |-> FALSE]

Recent(grants, t) == SelectSeq(grants, LAMBDA g : t - g < 60)

\* one allow(1) call at the current time
BucketAllow ==
    LET r == allow(tb, 1, now)
        refilled == r.bucket.reset_at # tb.reset_at
        base == IF refilled THEN 0 ELSE obs.in_window
    IN /\ tb' = r.bucket
       /\ obs' = [obs EXCEPT !.recent = IF r.ok THEN Append(@, now) ELSE @,
                             !.in_window = IF r.ok THEN base + 1 ELSE base,
                             !.last_ok = r.ok]
       /\ UNCHANGED <<ws, run, stop_event, now, wt, app>>

BucketTick ==
    /\ now + obs.step <= MaxBucketTime
    /\ now' = now + obs.step
    /\ obs' = [obs EXCEPT !.recent = Recent(@, now'), !.last_ok = FALSE]
    /\ UNCHANGED <<ws, run, stop_event, wt, tb, app>>

InitBucket ==
    \E c \in BucketSettings :
        /\ tb = TokenBucket(c[1], 0)
        /\ app = NoApp
        /\ obs = BucketObs0(c[2])
        /\ now = 0
        /\ ws = NoSource
        /\ run = NoRun
        /\ stop_event = FALSE
        /\ wt = NoWatcher

NextBucket ==
    \/ BucketAllow
    \/ BucketTick

SpecBucket == InitBucket /\ [][NextBucket]_vars

----------------------------------------------------------------------------
\* class WatcherThread (the polling loop) and SpecPoll

\* WatcherThread.__init__
WatcherThread(interval_sec, first_run_no_notify) ==
    [interval |-> Max(5, interval_sec),
     q |-> <<>>,
     first_run |-> TRUE,
     first_run_no_notify |-> first_run_no_notify,
     prev_online_ids |-> {},
     _backoff |-> 1,
     _backoff_max |-> 60,
     wait |-> 0]

\* [f for f in friends if f["id"] in newly_online_ids]
KeepIds(friends, ids) == SelectSeq(friends, LAMBDA f : f.id \in ids)

\* one pass of the loop body of WatcherThread.run, up to its sleep; pull is
\* what self.vrc.fetch_online_friends() did
iteration(w, pull) ==
    IF pull.raised
    THEN [put(w, Ev(EVENT_ERROR, <<>>)) EXCEPT
              !.wait = Min(w._backoff, w._backoff_max),
              !._backoff = Min(w._backoff * 2, w._backoff_max)]
    ELSE LET friends == pull.friends
             now_ids == EntryIds(friends)
             newly_online == IF w.first_run /\ w.first_run_no_notify THEN <<>>
                             ELSE KeepIds(friends, now_ids \ w.prev_online_ids)
             w1 == IF newly_online # <<>> THEN put(w, Ev(EVENT_ONLINE_NOW, newly_online)) ELSE w
             w2 == put(put(w1, Ev(EVENT_LIST_UPDATE, friends)), HEARTBEAT)
         IN [w2 EXCEPT !.prev_online_ids = now_ids, !.first_run = FALSE,
                       !._backoff = 1, !.wait = w.interval]

\* Observation of the polling loop: what the last step was; for a pull,
\* whether it raised, whether the directory query failed in it, the ids it
\* returned and the queue length, first-run flag and previous-online set
\* before it; and of the history, whether a pull was made before, whether the
\* pull before this one failed, whether the service answered one before, the
\* ids of the latest answered pull before this one, and the number of pulls
\* that raised since the latest one that did not
PollObs0 ==
    [op |-> "none", raised |-> FALSE, pull_ids |-> {}, pre_qlen |-> 0,
     pulled_before |-> FALSE, any_pull |-> FALSE, fails |-> 0,
     failed |-> FALSE, pre_ids |-> {}, after_failed |-> FALSE,
     answered |-> FALSE, answer_ids |-> {},
     answered_before |-> FALSE, answer_before |-> {}, pre_first |-> TRUE]

PollQuiet(o) == [o EXCEPT !.op = "none", !.pre_ids = {}, !.answer_before = {}, !.pre_first = TRUE]

\* the loop body runs, with the service in state srv
PollPull ==
    \E srv \in Services :
        LET pull == Pull(srv, NoFilter)
            ids == EntryIds(pull.friends)
        IN /\ run.pc = "polling"
           /\ Len(wt.q) < MaxQueue
           /\ pull.raised => obs.fails < MaxFails
           /\ wt' = iteration(wt, pull)
           /\ run' = [pc |-> "sleeping"]
           /\ obs' = [op |-> "pull", raised |-> pull.raised, pull_ids |-> ids,
                      pre_qlen |-> Len(wt.q),
                      pulled_before |-> obs.any_pull, any_pull |-> TRUE,
                      fails |-> IF pull.raised THEN obs.fails + 1 ELSE 0,
                      failed |-> PullFails(srv),
                      pre_ids |-> wt.prev_online_ids,
                      after_failed |-> obs.failed,
                      answered |-> obs.answered \/ ~PullFails(srv),
                      answer_ids |-> IF PullFails(srv) THEN obs.answer_ids ELSE ids,
                      answered_before |-> obs.answered,
                      answer_before |-> obs.answer_ids,
                      pre_first |-> wt.first_run]
           /\ UNCHANGED <<ws, stop_event, now, tb, app>>

\* the thread begins: run() makes its first loop test, and with the stop
\* signal set it ends without a pull
PollBegins ==
    /\ run.pc = "started"
    /\ run' = [pc |-> IF stop_event THEN "stopped" ELSE "polling"]
    /\ obs' = PollQuiet(obs)
    /\ UNCHANGED <<ws, stop_event, now, wt, tb, app>>

\* _sleep_with_stop returns and the loop tests stop_event
PollSleepEnds ==
    /\ run.pc = "sleeping"
    /\ run' = [pc |-> IF stop_event THEN "stopped" ELSE "polling"]
    /\ obs' = PollQuiet(obs)
    /\ UNCHANGED <<ws, stop_event, now, wt, tb, app>>

PollStop == SetStopStep /\ obs' = PollQuiet(obs)

\* the consumer drains the queue (MainWindow._drain_queue)
PollConsume ==
    /\ wt.q # <<>>
    /\ wt' = [wt EXCEPT !.q = <<>>]
    /\ obs' = PollQuiet(obs)
    /\ UNCHANGED <<ws, run, stop_event, now, tb, app>>

\* <<interval_sec, first_run_no_notify>>; on_start passes first_run_no_notify = True
PollSettings == {<<30, TRUE>>, <<3, TRUE>>, <<30, FALSE>>}

InitPoll ==
    \E c \in PollSettings :
        /\ wt = WatcherThread(c[1], c[2])
        /\ run = [pc |-> "started"]
        /\ stop_event = FALSE
        /\ now = 0
        /\ ws = NoSource
        /\ tb = NoBucket
        /\ app = NoApp
        /\ obs = PollObs0

NextPoll ==
    \/ PollBegins
    \/ PollPull
    \/ PollSleepEnds
    \/ PollStop
    \/ PollConsume

SpecPoll == InitPoll /\ [][NextPoll]_vars

----------------------------------------------------------------------------
\* SpecDiff: online/offline applications and full replacements, one at a time

\* Observation: the presence set left by the last full replacement (empty at
\* construction) and the applications made since, oldest first
DiffObs0 == [base |-> {}, apps |-> <<>>]

App(kind, uid) == [kind |-> kind, uid |-> uid]

DiffOnline ==
    \E u \in Ids :
        /\ Len(obs.apps) < MaxApps
        /\ Len(ws.q) < MaxQueue
        /\ ws' = _handle_online(ws, u, now)
        /\ obs' = [obs EXCEPT !.apps = Append(@, App(EVENT_ONLINE, u))]
        /\ UNCHANGED <<run, stop_event, now, wt, tb, app>>

DiffOffline ==
    \E u \in Ids :
        /\ Len(obs.apps) < MaxApps
        /\ Len(ws.q) < MaxQueue
        /\ ws' = _handle_offline(ws, u)
        /\ obs' = [obs EXCEPT !.apps = Append(@, App(EVENT_OFFLINE, u))]
        /\ UNCHANGED <<run, stop_event, now, wt, tb, app>>

\* a resync whose pull returns: the presence set becomes the pulled set
DiffReplace ==
    \E srv \in Services :
        LET pull == Pull(srv, ws.filter_ids)
        IN /\ ~pull.raised
           /\ Len(ws.q) < MaxQueue
           /\ ws' = _resync_with_rest(ws, pull, now)
           /\ obs' = [base |-> EntryIds(pull.friends), apps |-> <<>>]
           /\ UNCHANGED <<run, stop_event, now, wt, tb, app>>

DiffConsume == ConsumeStep /\ UNCHANGED obs

DiffSessions == {<<NoFilter, FALSE>>, <<FilterOf({"usr_1"}), FALSE>>, <<NoFilter, TRUE>>}

InitDiff ==
    \E c \in DiffSessions :
        /\ ws = WebSocketFriendSource(PushCfg, TRUE, c[1], c[2], 0)
        /\ run = NoRun
        /\ stop_event = FALSE
        /\ now = 0
        /\ wt = NoWatcher
        /\ tb = NoBucket
        /\ app = NoApp
        /\ obs = DiffObs0

NextDiff ==
    \/ DiffOnline
    \/ DiffOffline
    \/ DiffReplace
    \/ DiffConsume

SpecDiff == InitDiff /\ [][NextDiff]_vars

----------------------------------------------------------------------------
\* SpecStop: the supervisor loop with on_stop, its sleep followed nap by nap

\* _sleep_with_stop naps 0.2 s at a time; a wait of w seconds, jittered by a
\* factor in [0.8, 1.2], takes between 4 * w and 6 * w naps
Naps(wait) == (4 * wait)..(6 * wait)

StopCfg == RunCfg(GoodUrl, 1, 2)

\* run() reaches _sleep_with_stop(wait * jitter), which will need n naps
BeginSleep(r, n) == IF r.pc = "sleeping" THEN [r EXCEPT !.left = n] ELSE r

\* the loop test of _sleep_with_stop: nap again, or return to run(), which
\* doubles backoff and tests the stop signal
_sleep_with_stop(r, cfg, stopped) ==
    IF ~stopped /\ r.left > 0 THEN [r EXCEPT !.pc = "napping"]
    ELSE AfterSleep(r, cfg, stopped)

\* Observation of the stop: whether the signal was set during a backoff
\* wait, and whether a nap was begun after that
StopObs0 == [stop_in_wait |-> FALSE, nap_after_stop |-> FALSE]

\* the thread begins: run() makes its first loop test, and with the stop
\* signal set it returns with no connection attempt and no event
StopBegins == RunBeginsStep /\ UNCHANGED obs

StopConnectFails ==
    \E n \in Naps(Min(run.backoff, ws.cfg.reconnect_max)) :
        /\ run.pc = "connecting"
        /\ Len(ws.q) < MaxQueue
        /\ ws' = IF UrlUsable(ws.cfg.url) THEN _on_error(ws) ELSE ws
        /\ run' = BeginSleep(AfterDisconnect(run, ws.cfg, stop_event), n)
        /\ UNCHANGED <<stop_event, now, wt, tb, obs, app>>

StopConnectOpens ==
    /\ ConnectOpensStep
    /\ UNCHANGED obs

\* the server closes the connection or the transport fails
StopConnectionEnds ==
    \E n \in Naps(Min(run.backoff, ws.cfg.reconnect_max)) : \E error \in BOOLEAN :
        /\ run.pc = "connected"
        /\ Len(ws.q) < MaxQueue
        /\ ws' = IF error THEN _on_error(ws) ELSE ws
        /\ run' = BeginSleep(AfterDisconnect(run, ws.cfg, stop_event), n)
        /\ UNCHANGED <<stop_event, now, wt, tb, obs, app>>

\* a frame arrives on the open connection
StopMessage ==
    \E frame \in Inert :
        /\ MessageStep(frame)
        /\ UNCHANGED obs

StopSleepTest ==
    /\ run.pc = "sleeping"
    /\ run' = _sleep_with_stop(run, ws.cfg, stop_event)
    /\ obs' = [obs EXCEPT !.nap_after_stop = @ \/ (stop_event /\ run'.pc = "napping")]
    /\ UNCHANGED <<ws, stop_event, now, wt, tb, app>>

\* time.sleep(0.2) returns
StopNapEnds ==
    /\ run.pc = "napping"
    /\ run' = [run EXCEPT !.pc = "sleeping", !.left = @ - 1]
    /\ UNCHANGED <<ws, stop_event, now, wt, tb, obs, app>>

\* on_stop: the stop signal is set; nothing is done to the connection
StopSet ==
    /\ SetStopStep
    /\ obs' = [obs EXCEPT !.stop_in_wait = run.pc \in {"sleeping", "napping"}]

StopConsume == ConsumeStep /\ UNCHANGED obs

\* the URLs of the sessions followed: one that connects, one that makes
\* _connect_and_loop raise before it connects
StopUrls == {GoodUrl, NoTokenUrl}

\* a session constructed and its thread started, its first loop test to
\* come; left counts the naps of a wait
InitStop ==
    /\ \E url \in StopUrls : ws = WebSocketFriendSource([StopCfg EXCEPT !.url = url], FALSE, NoFilter, FALSE, 0)
    /\ run = [pc |-> RunStart(StopCfg).pc, backoff |-> RunStart(StopCfg).backoff,
              wait |-> RunStart(StopCfg).wait, now |-> RunStart(StopCfg).now,
              rest |-> RunStart(StopCfg).rest, left |-> 0]
    /\ stop_event = FALSE
    /\ now = 0
    /\ wt = NoWatcher
    /\ tb = NoBucket
    /\ app = NoApp
    /\ obs = StopObs0

NextStop ==
    \/ StopBegins
    \/ StopConnectFails
    \/ StopConnectOpens
    \/ StopConnectionEnds
    \/ StopMessage
    \/ StopSleepTest
    \/ StopNapEnds
    \/ StopSet
    \/ StopConsume

\* the thread and the consumer keep running; the server and the transport owe
\* nothing: no frame, close or error has to come
SpecStop ==
    /\ InitStop
    /\ [][NextStop]_vars
    /\ WF_vars(StopBegins)
    /\ WF_vars(StopConnectFails \/ StopConnectOpens)
    /\ WF_vars(StopSleepTest)
    /\ WF_vars(StopNapEnds)
    /\ WF_vars(StopConsume)

----------------------------------------------------------------------------
\* SpecAllow: one TokenBucket, allow(n) call by call

\* <<capacity_per_min, seconds between two instants the clock visits>>; 20 is
\* the capacity on_start configures
AllowSettings == {<<20, 30>>, <<2, 20>>, <<1, 45>>}

\* the amounts asked for (_handle_online asks for 1)
Amounts == {0, 1, 2}

\* Observation of a call: the amount, the time, the bucket before, the
\* result, and the number of allow(1) calls granted in the bucket's window
\* before the call (pre_ones) and up to now (ones)
AllowObs0(step) ==
    [step |-> step, op |-> "none", n |-> 0, at |-> 0, pre |-> NoBucket, ok |-> FALSE,
     pre_ones |-> 0, ones |-> 0]

AllowCall ==
    \E n \in Amounts :
        LET r == allow(tb, n, now)
            base == IF now >= tb.reset_at THEN 0 ELSE obs.ones
        IN /\ tb' = r.bucket
           /\ obs' = [obs EXCEPT !.op = "allow", !.n = n, !.at = now, !.pre = tb, !.ok = r.ok,
                                 !.pre_ones = obs.ones,
                                 !.ones = IF r.ok /\ n = 1 THEN base + 1 ELSE base]
           /\ UNCHANGED <<ws, run, stop_event, now, wt, app>>

AllowTick ==
    /\ now + obs.step <= MaxBucketTime
    /\ now' = now + obs.step
    /\ obs' = [obs EXCEPT !.op = "tick"]
    /\ UNCHANGED <<ws, run, stop_event, wt, tb, app>>

InitAllow ==
    \E c \in AllowSettings :
        /\ tb = TokenBucket(c[1], 0)
        /\ app = NoApp
        /\ obs = AllowObs0(c[2])
        /\ now = 0
        /\ ws = NoSource
        /\ run = NoRun
        /\ stop_event = FALSE
        /\ wt = NoWatcher

NextAllow ==
    \/ AllowCall
    \/ AllowTick

SpecAllow == InitAllow /\ [][NextAllow]_vars

----------------------------------------------------------------------------
\* SpecResync: one connection with its clock; every frame is followed with
\* the source as it was before the frame

ResyncFrames ==
    DirectOnlineNamed
    \cup {f \in Frames : f.cls = "direct" /\ f.kind = "offline"}
    \cup {f \in Inert : f.cls \in {"unknown", "string", "bad"}}

\* Observation of a frame ("pulling" while its callback waits for the pull
\* of a resync, "on_message" when the callback is done): the frame, the time
\* it came, the source before it, the events its callback has enqueued,
\* whether a resync was due and ran, and whether its pull failed
ResyncObs0 ==
    [op |-> "none", frame |-> NoFrame, at |-> 0, pre |-> NoSource, sent |-> <<>>,
     due |-> FALSE, failed |-> FALSE, raised |-> FALSE]

\* a step of the consumer or the clock: the callback in progress stays observed
ResyncQuiet == IF Pulling THEN obs ELSE [ResyncObs0 EXCEPT !.op = "other"]

ResyncOpens ==
    /\ ConnectOpensStep
    /\ obs' = ResyncQuiet

ResyncOpenReturns ==
    \E srv \in Services :
        /\ OpenReturnsStep(srv)
        /\ obs' = [ResyncObs0 EXCEPT !.op = "other"]

ResyncMessage ==
    \E frame \in ResyncFrames :
        /\ MessageStep(frame)
        /\ obs' = [op |-> IF run'.pc = "resyncing" THEN "pulling" ELSE "on_message",
                   frame |-> frame, at |-> now, pre |-> ws, sent |-> NewEvents(ws, ws'),
                   due |-> run'.pc = "resyncing", failed |-> FALSE, raised |-> FALSE]

ResyncPullReturns ==
    \E srv \in Services :
        /\ ResyncReturnsStep(srv)
        /\ obs' = [obs EXCEPT !.op = "on_message", !.sent = @ \o NewEvents(ws, ws'),
                              !.failed = PullFails(srv), !.raised = srv.raises]

ResyncTick == TickStep /\ obs' = ResyncQuiet

ResyncConsume == ConsumeStep /\ obs' = ResyncQuiet

ResyncSessions == {<<NoFilter, FALSE>>, <<NoFilter, TRUE>>, <<FilterOf({"usr_1"}), FALSE>>}

InitResync ==
    \E c \in ResyncSessions :
        Started(WebSocketFriendSource(PushCfg, TRUE, c[1], c[2], 0), ResyncObs0)

NextResync ==
    \/ ResyncOpens
    \/ ResyncOpenReturns
    \/ ResyncMessage
    \/ ResyncPullReturns
    \/ ResyncTick
    \/ ResyncConsume

SpecResync == InitResync /\ [][NextResync]_vars

----------------------------------------------------------------------------
\* SpecNotify: the online and offline handlers on their own, with the clock
\* of the notification bucket

\* <<emit_legacy, notify_rate_per_min, seconds between two instants the clock visits>>
NotifySettings == {<<TRUE, 1, 30>>, <<TRUE, 2, 20>>, <<FALSE, 1, 30>>}

\* Observation of a handler call: the call, its time, the source before it,
\* and the number of online_now events enqueued since the bucket last refilled
NotifyObs0(step) == [step |-> step, op |-> "none", uid |-> "", at |-> 0, pre |-> NoSource, in_window |-> 0]

\* _handle_online(uid) at the current time
NotifyOnline ==
    \E u \in Ids :
        LET post == _handle_online(ws, u, now)
            notes == CountKind(NewEvents(ws, post), EVENT_ONLINE_NOW)
            base == IF post.notify_bucket.reset_at # ws.notify_bucket.reset_at THEN 0 ELSE obs.in_window
        IN /\ Len(ws.q) < MaxQueue
           /\ ws' = post
           /\ obs' = [obs EXCEPT !.op = "online", !.uid = u, !.at = now, !.pre = ws,
                                 !.in_window = base + notes]
           /\ UNCHANGED <<run, stop_event, now, wt, tb, app>>

\* _handle_offline(uid)
NotifyOffline ==
    \E u \in Ids :
        /\ Len(ws.q) < MaxQueue
        /\ ws' = _handle_offline(ws, u)
        /\ obs' = [obs EXCEPT !.op = "offline", !.uid = u, !.at = now, !.pre = ws]
        /\ UNCHANGED <<run, stop_event, now, wt, tb, app>>

NotifyTick ==
    /\ now + obs.step <= MaxBucketTime
    /\ now' = now + obs.step
    /\ obs' = [obs EXCEPT !.op = "none", !.uid = "", !.pre = NoSource]
    /\ UNCHANGED <<ws, run, stop_event, wt, tb, app>>

NotifyConsume ==
    /\ ws.q # <<>>
    /\ ws' = [ws EXCEPT !.q = <<>>]
    /\ obs' = [obs EXCEPT !.op = "none", !.uid = "", !.pre = NoSource]
    /\ UNCHANGED <<run, stop_event, now, wt, tb, app>>

InitNotify ==
    \E c \in NotifySettings :
        /\ ws = WebSocketFriendSource([PushCfg EXCEPT !.notify_rate_per_min = c[2]], FALSE, NoFilter, c[1], 0)
        /\ obs = NotifyObs0(c[3])
        /\ now = 0
        /\ run = NoRun
        /\ stop_event = FALSE
        /\ wt = NoWatcher
        /\ tb = NoBucket
        /\ app = NoApp

NextNotify ==
    \/ NotifyOnline
    \/ NotifyOffline
    \/ NotifyTick
    \/ NotifyConsume

SpecNotify == InitNotify /\ [][NextNotify]_vars

----------------------------------------------------------------------------
\* SpecApp: on_start and on_stop of app.py around the driver thread

\* _watcher.join(timeout=3.0), _ws_thread.join(timeout=3.0)
JoinTimeout == 3

\* the WebSocketConfig on_start builds
AppCfg(ws_url) ==
    [url |-> ws_url, reconnect_initial |-> 3, reconnect_max |-> 300,
     list_flush_interval |-> 5, notify_rate_per_min |-> 20, periodic_rest_resync_sec |-> 300]

\* VRChatClient.build_pipeline_ws_url; tok: get_auth_token() finds a token
build_pipeline_ws_url(tok) == IF tok THEN GoodUrl ELSE ""

\* the module globals before the first on_start, and what the last on_start
\* call was given and reported (showerror: the message box of on_start;
\* TypeError: the exception it raised to MainWindow._handle_start); old: the
\* driver threads of earlier sessions that are still alive, each with its
\* locals in run(), its own stop signal and its own source: the fields of
\* its WebSocketFriendSource other than the queue, which all sessions share
App0 ==
    [pc |-> "idle", _ws_thread |-> FALSE, _watcher |-> FALSE, _stop_event |-> FALSE,
     waited |-> 0, mode |-> "", ws_url |-> "", filter_ids |-> NoFilter, reported |-> "none",
     old |-> {}]

\* the driver thread of the session is alive
Alive == run.pc \notin {"none", "stopped"}

\* Thread.join(timeout) of a thread that never ends
join_returns_mut_no_timeout(alive, waited) == ~alive

\* Thread.join(timeout=3.0) returns: the thread has ended or the time is up
join_returns(alive, waited) == ~alive \/ waited >= JoinTimeout

\* an on_stop that leaves the stop signal alone
set_stop_mut_skip(a, stopped) == stopped

\* the head of on_stop: if _stop_event is not None: _stop_event.set()
set_stop(a, stopped) == stopped \/ a._stop_event

\* the tail of on_stop: _watcher = None; _ws_thread = None; _stop_event = None
ClearRefs(a) ==
    [a EXCEPT !._watcher = FALSE, !._ws_thread = FALSE, !._stop_event = FALSE, !.pc = "idle"]

\* the events on_start enqueues itself: ("online", initial) when the first
\* pull answers a non-empty list, then a heartbeat
InitialEvents(pull) ==
    (IF ~pull.raised /\ pull.friends # <<>> THEN <<Ev(EVENT_ONLINE, pull.friends)>> ELSE <<>>)
    \o <<HEARTBEAT>>

\* on_start after the login: a is the globals once its on_stop() call is
\* done, q the shared queue; the outcome is the globals, the source and the
\* position of the driver thread it started (NoRun: none)
on_start(a, q, mode, env_url, tok, filter_ids, pull, t) ==
    LET q1 == q \o InitialEvents(pull)
        a1 == [a EXCEPT !._stop_event = TRUE, !.mode = mode, !.filter_ids = filter_ids,
                        !.ws_url = "", !.reported = "none"]
        ws_url == IF env_url # "" THEN env_url ELSE build_pipeline_ws_url(tok)
    IN IF mode = "ws"
       THEN IF ws_url = ""
            THEN [app |-> [a1 EXCEPT !.reported = "showerror"], ws |-> [q |-> q1], run |-> NoRun]
            ELSE [app |-> [a1 EXCEPT !._ws_thread = TRUE, !.ws_url = ws_url],
                  ws |-> [WebSocketFriendSource(AppCfg(ws_url), TRUE, filter_ids, FALSE, t) EXCEPT !.q = q1],
                  run |-> RunStart(AppCfg(ws_url))]
       \* WatcherThread(..., filter_ids=filter_ids): __init__ takes no filter_ids
       ELSE [app |-> [a1 EXCEPT !.reported = "TypeError"], ws |-> [q |-> q1], run |-> NoRun]

\* the values WS_URL can have, the modes of the GUI, the target groups
EnvUrls == {"", NoTokenUrl, GoodUrl}
Modes == {"ws", "rest"}
Targets == {NoFilter, FilterOf({"usr_1"}), FilterOf({})}

\* Observation: the last step
AppObs0 == [op |-> "none"]

\* the steps of the driver of the session started last
DriverOps == {"loop_test", "connect_failed", "on_open", "on_message", "disconnected", "slept"}

\* on_stop has returned for the session of the driver in run
Returned == app.pc = "idle" /\ ~app._ws_thread /\ ~app._watcher

DriverStep(op) == obs' = [op |-> op]

\* the fields of a source other than its queue
Tracker(s) == [s EXCEPT !.q = <<>>]

\* the driver in run, as one of the drivers of earlier sessions
Abandoned == IF Alive THEN {[run |-> run, stop |-> stop_event, src |-> Tracker(ws)]} ELSE {}

\* on_start begins with on_stop(); it is followed here from the point where
\* that call has no thread to wait for: the driver has ended, or (abandon) an
\* earlier on_stop has given up waiting for it and cleared the globals; this
\* on_stop() call waits for nothing
StartStep(modes, urls, targets, abandon) ==
    \E mode \in modes : \E env_url \in urls : \E tok \in BOOLEAN :
    \E filter_ids \in targets : \E srv \in {Service({"usr_1"}), ServiceRaises} :
        LET r == on_start(ClearRefs([app EXCEPT !.waited = 0]), ws.q, mode, env_url, tok, filter_ids,
                          Pull(srv, filter_ids), now)
        IN /\ app.pc = "idle"
           /\ Alive => (abandon /\ Returned /\ Cardinality(app.old) < MaxAbandoned)
           /\ ws.q = <<>>
           /\ app' = [r.app EXCEPT !.old = app.old \cup Abandoned]
           /\ ws' = r.ws
           /\ run' = r.run
           /\ stop_event' = FALSE
           /\ obs' = [obs EXCEPT !.op = "on_start"]
           /\ UNCHANGED <<now, wt, tb>>

\* every mode, URL and target group, started when the last driver has ended
AppStart == StartStep(Modes, EnvUrls, Targets, FALSE)

AppBegins == RunBeginsStep /\ DriverStep("loop_test")

AppConnectFails == ConnectFailsStep /\ DriverStep("connect_failed")

AppConnectOpens == ConnectOpensStep /\ DriverStep("on_open")

AppOpenReturns ==
    \E srv \in {ServiceDown, Service(Ids)} :
        OpenReturnsStep(srv) /\ DriverStep("on_open")

\* the frames followed in a session of the application: one that goes
\* offline and one that carries no event
AppFrames ==
    {f \in Frames : f.cls = "direct" /\ f.kind = "offline" /\ f.uid = "usr_1"}
    \cup {f \in Inert : f.cls = "unknown"}

\* (the resync of these sessions is due after 300 s and is not followed)
AppMessage ==
    \E frame \in AppFrames :
        MessageStep(frame) /\ DriverStep("on_message")

AppConnectionEnds == ConnectionEndsStep /\ DriverStep("disconnected")

AppSleepEnds == SleepEndsStep /\ DriverStep("slept")

\* the source of the driver d of an earlier session, on the shared queue
OldSource(d) == [d.src EXCEPT !.q = ws.q]

\* the driver d of an earlier session has taken a step that leaves its source
\* as s and its locals as r: what it has put is on the shared queue, and a
\* driver that has left run() is followed no longer
OldStep(d, s, r) ==
    /\ ws' = [ws EXCEPT !.q = s.q]
    /\ app' = [app EXCEPT !.old = (app.old \ {d}) \cup
                    (IF r.pc = "stopped" THEN {} ELSE {[d EXCEPT !.run = r, !.src = Tracker(s)]})]
    /\ obs' = [op |-> "old_driver"]
    /\ UNCHANGED <<run, stop_event, now, wt, tb>>

\* the steps of RunBeginsStep, ConnectFailsStep, ConnectOpensStep,
\* OpenReturnsStep, MessageStep, ConnectionEndsStep and SleepEndsStep, taken
\* by the driver of an earlier session on its own source and with its own
\* stop signal
AppOldBegins ==
    \E d \in app.old :
        /\ d.run.pc = "started"
        /\ OldStep(d, OldSource(d), LoopTest(d.run, d.stop))

AppOldConnectFails ==
    \E d \in app.old :
        /\ d.run.pc = "connecting"
        /\ Len(ws.q) < MaxQueue
        /\ OldStep(d, IF UrlUsable(d.src.cfg.url) THEN _on_error(OldSource(d)) ELSE OldSource(d),
                   AfterDisconnect(d.run, d.src.cfg, d.stop))

AppOldConnectOpens ==
    \E d \in app.old :
        /\ d.run.pc = "connecting"
        /\ UrlUsable(d.src.cfg.url)
        /\ Len(ws.q) < MaxQueue
        /\ OldStep(d, _on_open(OldSource(d)),
                   [d.run EXCEPT !.pc = IF d.src.has_vrc THEN "opening" ELSE "connected"])

AppOldOpenReturns ==
    \E d \in app.old : \E srv \in {ServiceDown, Service(Ids)} :
        /\ d.run.pc = "opening"
        /\ OldStep(d, InitialSync(OldSource(d), Pull(srv, d.src.filter_ids)),
                   [d.run EXCEPT !.pc = "connected"])

AppOldMessage ==
    \E d \in app.old : \E frame \in AppFrames :
        /\ d.run.pc = "connected"
        /\ Len(ws.q) < MaxQueue
        /\ \E p \in {_on_message(OldSource(d), frame.raw, now)} :
               OldStep(d, p.s, InCallback(d.run, p, now))

AppOldConnectionEnds ==
    \E d \in app.old : \E error \in BOOLEAN :
        /\ d.run.pc = "connected"
        /\ Len(ws.q) < MaxQueue
        /\ OldStep(d, IF error THEN _on_error(OldSource(d)) ELSE OldSource(d),
                   AfterDisconnect(d.run, d.src.cfg, d.stop))

AppOldSleepEnds ==
    \E d \in app.old :
        /\ d.run.pc = "sleeping"
        /\ OldStep(d, OldSource(d), AfterSleep(d.run, d.src.cfg, d.stop))

\* on_stop up to its join: the stop signal is set; with a live driver thread
\* on_stop waits in join, otherwise it clears the globals and returns
AppStop ==
    /\ app.pc = "idle"
    /\ stop_event' = set_stop(app, stop_event)
    /\ app' = IF (app._watcher \/ app._ws_thread) /\ Alive
              THEN [app EXCEPT !.pc = "joining", !.waited = 0]
              ELSE ClearRefs(app)
    /\ obs' = [obs EXCEPT !.op = "on_stop"]
    /\ UNCHANGED <<ws, run, now, wt, tb>>

\* one second passes in join
AppJoinTick ==
    /\ app.pc = "joining"
    /\ Alive
    /\ app.waited < JoinTimeout
    /\ app' = [app EXCEPT !.waited = @ + 1]
    /\ obs' = [obs EXCEPT !.op = "join_wait"]
    /\ UNCHANGED <<ws, run, stop_event, now, wt, tb>>

\* join returns and on_stop clears the globals
AppJoinReturns ==
    /\ app.pc = "joining"
    /\ join_returns(Alive, app.waited)
    /\ app' = ClearRefs(app)
    /\ obs' = [obs EXCEPT !.op = "on_stop_returned"]
    /\ UNCHANGED <<ws, run, stop_event, now, wt, tb>>

AppConsume == ConsumeStep /\ obs' = [obs EXCEPT !.op = "consumed"]

InitApp ==
    /\ app = App0
    /\ ws = NoSource
    /\ run = NoRun
    /\ stop_event = FALSE
    /\ now = 0
    /\ wt = NoWatcher
    /\ tb = NoBucket
    /\ obs = AppObs0

NextApp ==
    \/ AppStart
    \/ AppBegins
    \/ AppConnectFails
    \/ AppConnectOpens
    \/ AppOpenReturns
    \/ AppConnectionEnds
    \/ AppSleepEnds
    \/ AppMessage
    \/ AppStop
    \/ AppJoinTick
    \/ AppJoinReturns
    \/ AppConsume

\* time passes while on_stop waits in join, and join returns when it may
SpecApp == InitApp /\ [][NextApp]_vars /\ WF_vars(AppJoinTick) /\ WF_vars(AppJoinReturns)

----------------------------------------------------------------------------
\* SpecRestart: push sessions of the application started one after the
\* other, the drivers of earlier sessions followed while they are alive

RestartStart == StartStep({"ws"}, {GoodUrl}, {NoFilter}, TRUE)

\* the sleep of a session is followed when the stop signal cuts it short
\* (the reconnects of one session are followed in SpecRun and SpecApp)
RestartSleepEnds == stop_event /\ AppSleepEnds

NextRestart ==
    \/ RestartStart
    \/ AppBegins
    \/ AppOldBegins
    \/ AppConnectFails
    \/ AppConnectOpens
    \/ AppOpenReturns
    \/ AppConnectionEnds
    \/ RestartSleepEnds
    \/ AppMessage
    \/ AppOldConnectFails
    \/ AppOldConnectOpens
    \/ AppOldOpenReturns
    \/ AppOldMessage
    \/ AppOldConnectionEnds
    \/ AppOldSleepEnds
    \/ AppStop
    \/ AppJoinTick
    \/ AppJoinReturns
    \/ AppConsume

SpecRestart == InitApp /\ [][NextRestart]_vars /\ WF_vars(AppJoinTick) /\ WF_vars(AppJoinReturns)

----------------------------------------------------------------------------
\* SpecOrder: one push session with its reconnects and resyncs, the Online
\* and Offline events it enqueues followed id by id

\* the frames followed: friend-online and friend-offline of each id
OrderFrames == {f \in Frames : f.cls = "direct"}

\* Observation: the kind of the last Online or Offline event enqueued for
\* each id ("" when there is none yet), and whether every such event so far
\* differed in kind from the one before it for the same id, the first being
\* an Online event
OrderObs0 == [last |-> [u \in Ids |-> ""], alternate |-> TRUE]

RECURSIVE FollowEntries(_, _, _)
FollowEntries(o, kind, entries) ==
    IF entries = <<>> THEN o
    ELSE LET u == Head(entries).id
             fits == IF o.last[u] = "" THEN kind = EVENT_ONLINE ELSE o.last[u] # kind
         IN FollowEntries([last |-> [o.last EXCEPT ![u] = kind],
                           alternate |-> o.alternate /\ fits],
                          kind, Tail(entries))

RECURSIVE FollowEvents(_, _)
FollowEvents(o, events) ==
    IF events = <<>> THEN o
    ELSE FollowEvents(IF Head(events).kind \in {EVENT_ONLINE, EVENT_OFFLINE}
                      THEN FollowEntries(o, Head(events).kind, Head(events).entries)
                      ELSE o,
                      Tail(events))

OrderConnectFails == ConnectFailsStep /\ UNCHANGED obs

OrderOpens ==
    /\ ConnectOpensStep
    /\ obs' = FollowEvents(obs, NewEvents(ws, ws'))

OrderOpenReturns ==
    \E srv \in Services :
        /\ OpenReturnsStep(srv)
        /\ obs' = FollowEvents(obs, NewEvents(ws, ws'))

OrderMessage ==
    \E frame \in OrderFrames :
        /\ MessageStep(frame)
        /\ obs' = FollowEvents(obs, NewEvents(ws, ws'))

OrderResyncReturns ==
    \E srv \in Services :
        /\ ResyncReturnsStep(srv)
        /\ obs' = FollowEvents(obs, NewEvents(ws, ws'))

OrderConnectionEnds == ConnectionEndsStep /\ UNCHANGED obs

OrderSleepEnds == SleepEndsStep /\ UNCHANGED obs

OrderTick == TickStep /\ UNCHANGED obs

OrderConsume == ConsumeStep /\ UNCHANGED obs

InitOrder == Started(WebSocketFriendSource(PushCfg, TRUE, NoFilter, FALSE, 0), OrderObs0)

NextOrder ==
    \/ OrderConnectFails
    \/ OrderOpens
    \/ OrderOpenReturns
    \/ OrderMessage
    \/ OrderResyncReturns
    \/ OrderConnectionEnds
    \/ OrderSleepEnds
    \/ OrderTick
    \/ OrderConsume

SpecOrder == InitOrder /\ [][NextOrder]_vars

----------------------------------------------------------------------------
\* SpecArray: one connection that receives array frames and single frames,
\* each frame followed with the source as it was before it and the pulls
\* its callback has made

\* [[e], e', 5]: an array in an array, an object and a number
NestedArray ==
    Frame("array", "none", "", "",
          JEnc(JList(<<JList(<<EventObj("friend-online", IdOnly("userId", "usr_2"))>>),
                       EventObj("friend-offline", IdOnly("userId", "usr_1")),
                       JNum(5)>>)))

ArrayFrames ==
    Arrays \cup {NestedArray}
    \cup {f \in Inert : f.cls = "empty"}
    \cup {f \in Frames : f.cls = "direct"}

\* Observation of a frame ("pulling" while its callback waits for the pull
\* of a resync, "on_message" when the callback is done): the frame, the time
\* it came, the source before it, the events its callback has enqueued, and
\* the pulls it has made, each with the service that answered and the time
\* of the answer
ArrayObs0 ==
    [op |-> "none", frame |-> NoFrame, at |-> 0, pre |-> NoSource, sent |-> <<>>, pulls |-> <<>>]

\* a step of the consumer or the clock: the callback in progress stays observed
ArrayQuiet == IF Pulling THEN obs ELSE [ArrayObs0 EXCEPT !.op = "other"]

ArrayOpens ==
    /\ ConnectOpensStep
    /\ obs' = ArrayQuiet

ArrayOpenReturns ==
    \E srv \in Services :
        /\ OpenReturnsStep(srv)
        /\ obs' = [ArrayObs0 EXCEPT !.op = "other"]

ArrayMessage ==
    \E frame \in ArrayFrames :
        /\ MessageStep(frame)
        /\ obs' = [op |-> IF run'.pc = "resyncing" THEN "pulling" ELSE "on_message",
                   frame |-> frame, at |-> now, pre |-> ws, sent |-> NewEvents(ws, ws'),
                   pulls |-> <<>>]

ArrayResyncReturns ==
    \E srv \in Services :
        /\ ResyncReturnsStep(srv)
        /\ obs' = [obs EXCEPT !.op = IF run'.pc = "resyncing" THEN "pulling" ELSE "on_message",
                              !.sent = @ \o NewEvents(ws, ws'),
                              !.pulls = Append(@, [srv |-> srv, at |-> now])]

ArrayTick == TickStep /\ obs' = ArrayQuiet

ArrayConsume == ConsumeStep /\ obs' = ArrayQuiet

InitArray ==
    \E emit_legacy \in BOOLEAN :
        Started(WebSocketFriendSource(PushCfg, TRUE, NoFilter, emit_legacy, 0), ArrayObs0)

NextArray ==
    \/ ArrayOpens
    \/ ArrayOpenReturns
    \/ ArrayMessage
    \/ ArrayResyncReturns
    \/ ArrayTick
    \/ ArrayConsume

SpecArray == InitArray /\ [][NextArray]_vars

----------------------------------------------------------------------------
\* Claims about the push session (Spec)

\* the events the last callback enqueued
LastEvents == obs.sent

TransitionKinds == {EVENT_ONLINE, EVENT_OFFLINE, EVENT_ONLINE_NOW}

\* the last step handled one push frame carrying one online or offline event,
\* and no resync replaced the set in the same callback
PushHandled(kind) == obs.op = "on_message" /\ obs.kind = kind /\ obs.resync # "ok"

\* C1: a push online event for an id that is already in the presence set, and a
\* push offline event for an id that is not in it, enqueue no Online, Offline
\* or online_now event and leave the presence set as it was.
C1_Idempotent ==
    (\/ PushHandled("online") /\ obs.uid \in obs.pre_prev
     \/ PushHandled("offline") /\ obs.uid \notin obs.pre_prev)
    => /\ ws.prev_online_ids = obs.pre_prev
       /\ \A i \in 1..Len(LastEvents) : LastEvents[i].kind \notin TransitionKinds

C1_Witness ==
    /\ PushHandled("online")
    /\ obs.uid \in obs.pre_prev
    /\ _is_target(ws, obs.uid)

\* C2: after a periodic resync whose pull returned the id set S, the presence
\* set is S, whatever it was before (frames that are arrays apply further
\* events after the resync and are left aside).
C2_ResyncConverges ==
    (obs.op = "on_message" /\ obs.resync = "ok" /\ obs.cls # "array")
    => ws.prev_online_ids = obs.pull_ids

C2_Witness ==
    /\ obs.op = "on_message" /\ obs.resync = "ok" /\ obs.cls # "array"
    /\ obs.pre_prev \ obs.pull_ids # {}
    /\ obs.pull_ids \ obs.pre_prev # {}

\* C3: in a session with a non-empty filter no id outside the filter is in the
\* presence set, and no Online, Offline or online_now event in the queue names one.
C3_FilterEnforced ==
    ~ws.filter_ids.none
    => /\ ws.prev_online_ids \subseteq ws.filter_ids.ids
       /\ \A i \in 1..Len(ws.q) :
              ws.q[i].kind \in TransitionKinds
              => \A j \in 1..Len(ws.q[i].entries) : ws.q[i].entries[j].id \in ws.filter_ids.ids

C3_Witness ==
    /\ ~ws.filter_ids.none
    /\ obs.op = "on_message" /\ obs.kind = "online"
    /\ obs.uid \notin ws.filter_ids.ids
    /\ obs.resync = "ok"

\* C7: two consecutive list_update emissions are at least list_flush_interval apart.
C7_FlushSpacing ==
    obs.lu_prev >= 0 => obs.lu_last - obs.lu_prev >= ws.cfg.list_flush_interval

----------------------------------------------------------------------------
\* Claims about the normalizer (SpecNorm)

\* C8: a notification envelope whose content is the JSON text of an object with
\* an online type, an id under a known key and a displayName is one online
\* event for that id with that name: the name is cached; when the id is allowed
\* by the filter and was not online, exactly one Online event {id, name} is
\* enqueued and the id joins the presence set; otherwise nothing changes.
C8_EnvelopeUnwrapped ==
    (obs.op = "on_message" /\ obs.cls = "envelope")
    => LET u == obs.uid
           online == SelectSeq(LastEvents, LAMBDA e : e.kind = EVENT_ONLINE)
       IN /\ ws.known_names[u] = NameOf[u]
          /\ IF _is_target(ws, u) /\ u \notin obs.pre_prev
             THEN /\ online = <<Ev(EVENT_ONLINE, <<Entry(u, NameOf[u])>>)>>
                  /\ ws.prev_online_ids = obs.pre_prev \cup {u}
             ELSE /\ online = <<>>
                  /\ ws.prev_online_ids = obs.pre_prev
          /\ CountKind(LastEvents, EVENT_OFFLINE) = 0

C8_Witness ==
    /\ obs.op = "on_message" /\ obs.cls = "envelope"
    /\ obs.uid \notin obs.pre_prev
    /\ obs.pre_prev # {}
    /\ _is_target(ws, obs.uid)

----------------------------------------------------------------------------
\* Claims about the supervisor loop (SpecRun)

DefaultWaits == <<3, 6, 12, 24, 48, 96, 192>>

\* C6: with reconnect_initial = 3 and reconnect_max = 300 the unjittered waits
\* of run() are 3, 6, 12, 24, 48, 96, 192, 300, 300, ... in this order, and
\* with any initial <= max the waits never decrease and never exceed reconnect_max.
C6_BackoffSequence ==
    LET cfg == ws.cfg
        w == obs.waits
    IN /\ (cfg.reconnect_initial = 3 /\ cfg.reconnect_max = 300)
          => \A k \in 1..Len(w) : w[k] = IF k <= Len(DefaultWaits) THEN DefaultWaits[k] ELSE 300
       /\ cfg.reconnect_initial <= cfg.reconnect_max
          => \A k \in 1..Len(w) : w[k] <= cfg.reconnect_max /\ (k > 1 => w[k - 1] <= w[k])

C6_Witness ==
    /\ ws.cfg.reconnect_initial = 3 /\ ws.cfg.reconnect_max = 300
    /\ Len(obs.waits) >= 9
    /\ obs.waits[9] = 300

\* C10: the first unjittered wait after a connection that had opened is
\* reconnect_initial.
C10_ResetOnOpen ==
    (run.pc = "sleeping" /\ obs.opened) => run.wait = ws.cfg.reconnect_initial

----------------------------------------------------------------------------
\* Claims about the token bucket (SpecBucket)

\* C4: the number of allow(1) calls that return true inside any rolling
\* 60-second interval never exceeds the capacity.
C4_RollingBound == Len(obs.recent) <= tb.capacity

\* C4 as the code has it: between two refills of the bucket at most capacity
\* calls return true, and inside any rolling 60-second interval at most twice
\* the capacity.
C4_WindowBound ==
    /\ obs.in_window <= tb.capacity
    /\ Len(obs.recent) <= 2 * tb.capacity

C4_Witness ==
    /\ obs.last_ok
    /\ tb.capacity >= 2
    /\ Len(obs.recent) = 2 * tb.capacity
    /\ obs.in_window = tb.capacity

----------------------------------------------------------------------------
\* Claims about the polling loop (SpecPoll)

\* the online_now notifications the last pull enqueued
PollNotes == SelectSeq(SubSeq(wt.q, obs.pre_qlen + 1, Len(wt.q)), LAMBDA e : e.kind = EVENT_ONLINE_NOW)

\* the last pull notified exactly the ids of new (nothing at all when new is empty)
NotifiedExactly(new) ==
    IF new = {} THEN PollNotes = <<>>
    ELSE Len(PollNotes) = 1 /\ EntryIds(PollNotes[1].entries) = new

\* C5: with first_run_no_notify, the first pull enqueues no online
\* notification and only records its ids as the baseline, and every later
\* successful pull (one the service answered in full) notifies exactly the
\* ids that are in it and were not in the previous successful pull.
C5_FirstPullSuppressed ==
    (obs.op = "pull" /\ wt.first_run_no_notify) =>
        /\ ~obs.pulled_before => (PollNotes = <<>> /\ wt.prev_online_ids = obs.pull_ids)
        /\ (obs.pulled_before /\ ~obs.failed /\ obs.answered_before) =>
               NotifiedExactly(obs.pull_ids \ obs.answer_before)

----------------------------------------------------------------------------
\* Claims about applications and replacements (SpecDiff)

AppsOf(kind, u) == SelectSeq(obs.apps, LAMBDA a : a.kind = kind /\ a.uid = u)

AppsTo(u) == SelectSeq(obs.apps, LAMBDA a : a.uid = u)

\* the ids with more online than offline applications, an id of the replaced
\* set counting as applied online once
NetOnline ==
    {u \in Ids : (IF u \in obs.base THEN 1 ELSE 0) + Len(AppsOf(EVENT_ONLINE, u))
                     > Len(AppsOf(EVENT_OFFLINE, u))}

\* C9: after any sequence of online/offline applications since construction
\* or the last full replacement, the presence set is the set of ids with more
\* online than offline applications in the sequence (ids the filter admits).
C9_NetCount ==
    \A u \in Ids : _is_target(ws, u) => (u \in ws.prev_online_ids <=> u \in NetOnline)

\* C9 as the code has it: an id the filter admits is in the presence set
\* exactly when its latest application since construction or the last full
\* replacement was an online one, or, having had none, when the replacement
\* left it in the set; applications to other ids change nothing.
C9_LastWins ==
    \A u \in Ids :
        u \in ws.prev_online_ids <=>
            IF _is_target(ws, u) /\ AppsTo(u) # <<>>
            THEN AppsTo(u)[Len(AppsTo(u))].kind = EVENT_ONLINE
            ELSE u \in obs.base

C9_Witness ==
    /\ Len(obs.apps) >= 3
    /\ obs.base # {}
    /\ \E u \in Ids : _is_target(ws, u) /\ ~(u \in ws.prev_online_ids <=> u \in NetOnline)

----------------------------------------------------------------------------
\* Claims about stopping (SpecStop)

\* C11: when the stop signal is set while the connection is open and the
\* supervisor waits for the next frame, run() eventually returns, without a
\* close by the server, a transport error or a further frame.
C11_StopWhileConnected == (stop_event /\ run.pc = "connected") ~> (run.pc = "stopped")

\* C12: when the stop signal is set during a backoff wait, no further nap is
\* begun and no further connection attempt is made, and run() returns.
C12_StopDuringWait ==
    /\ [](obs.stop_in_wait => (~obs.nap_after_stop /\ run.pc \in {"sleeping", "napping", "stopped"}))
    /\ (obs.stop_in_wait ~> (run.pc = "stopped"))

C12_Witness == obs.stop_in_wait /\ run.pc = "stopped" /\ run.left > 0

\* C26: while the stop signal is not set, every end of a connection attempt
\* (a connect failure, a transport error, a close, an exception raised before
\* connecting) is followed by a backoff wait and then by another attempt, and
\* run() returns only when the stop signal is set.
C26_RetriesUntilStopped ==
    /\ [](run.pc = "stopped" => stop_event)
    /\ [][(run.pc \in {"connecting", "connected"} /\ run'.pc \notin {"connecting", "connected"}
            /\ ~stop_event) => (run'.pc = "sleeping" /\ run'.wait >= 1 /\ run'.left >= 4)]_vars
    /\ (run.pc \in {"sleeping", "napping"} ~> (run.pc = "connecting" \/ stop_event))

C26_Witness ==
    /\ run.pc = "connecting" /\ run.wait = 2 /\ ~stop_event
    /\ ~UrlUsable(ws.cfg.url)

----------------------------------------------------------------------------
\* Claims about the initial sync (Spec)

\* C13: each time the connection opens and the initial pull returns the id
\* set S, the presence set equals S when _on_open is done.
C13_OpenReplaces ==
    (obs.op = "on_open" /\ obs.resync = "ok") => ws.prev_online_ids = obs.pull_ids

\* the online and offline events of e, read in order from the presence set
\* cur, each report a change: online an id that was absent, offline one that
\* was present
RECURSIVE ChangesOnly(_, _)
ChangesOnly(e, cur) ==
    IF e = <<>> THEN TRUE
    ELSE LET uid == Head(e).entries[1].id
         IN CASE Head(e).kind = EVENT_ONLINE ->
                     uid \notin cur /\ ChangesOnly(Tail(e), cur \cup {uid})
              [] Head(e).kind = EVENT_OFFLINE ->
                     uid \in cur /\ ChangesOnly(Tail(e), cur \ {uid})
              [] OTHER -> ChangesOnly(Tail(e), cur)

\* C14: on every path that enqueues Online or Offline events (a push frame,
\* the initial sync of a connection, a resync) an Online event is enqueued
\* only for an id absent from the presence set just before, an Offline event
\* only for an id present in it.
C14_EventsOnlyOnChange ==
    (obs.op \in {"on_open", "on_message"} /\ obs.cls # "array")
        => ChangesOnly(LastEvents, obs.pre_prev)

----------------------------------------------------------------------------
\* Claims about allow(n) (SpecAllow)

\* C15: tokens increases only in a call made at or after reset_at, which sets
\* it to capacity (before the call's own decrement) and starts a 60-second
\* window at the call; inside a window tokens never increases, and once
\* capacity calls allow(1) were granted in a window a further allow(1) in it
\* is refused.
C15_HardReset ==
    obs.op = "allow" =>
        /\ tb.tokens > obs.pre.tokens => obs.at >= obs.pre.reset_at
        /\ obs.at >= obs.pre.reset_at =>
               /\ tb.reset_at = obs.at + 60
               /\ tb.tokens + (IF obs.ok THEN obs.n ELSE 0) = tb.capacity
        /\ obs.at < obs.pre.reset_at =>
               /\ tb.reset_at = obs.pre.reset_at
               /\ tb.tokens <= obs.pre.tokens
               /\ (obs.n = 1 /\ obs.pre_ones >= tb.capacity) => ~obs.ok

C15_Witness ==
    /\ obs.op = "allow" /\ obs.n = 1 /\ ~obs.ok
    /\ tb.capacity = 20 /\ obs.pre_ones = 20
    /\ obs.pre.reset_at > 60 /\ obs.at < obs.pre.reset_at

\* C16: allow(n) returns true exactly when tokens >= n after the possible
\* window reset, and then takes n tokens; when it returns false the bucket
\* is as the possible window reset left it.
C16_AllowEffect ==
    obs.op = "allow" =>
        LET due == obs.at >= obs.pre.reset_at
            tokens == IF due THEN obs.pre.capacity ELSE obs.pre.tokens
            reset_at == IF due THEN obs.at + 60 ELSE obs.pre.reset_at
        IN /\ obs.ok <=> tokens >= obs.n
           /\ tb.capacity = obs.pre.capacity
           /\ tb.reset_at = reset_at
           /\ tb.tokens = IF obs.ok THEN tokens - obs.n ELSE tokens

C16_Witness ==
    /\ obs.op = "allow" /\ ~obs.ok /\ obs.n = 2
    /\ obs.pre.tokens = 0 /\ tb.tokens = 1
    /\ tb.reset_at = obs.at + 60

----------------------------------------------------------------------------
\* Claims about the heartbeat (SpecNorm)

\* C17: after each frame that decodes as JSON, whatever it holds, a Heartbeat
\* event is enqueued for that frame.
C17_HeartbeatPerFrame ==
    (obs.op = "on_message" /\ obs.cls # "bad")
        => \E i \in DOMAIN LastEvents : LastEvents[i].kind = EVENT_HEARTBEAT

----------------------------------------------------------------------------
\* Claims about a failing resync (SpecResync)

\* what the frame of the last step does to the source when no resync runs
WithoutResync ==
    LET s == _on_message([obs.pre EXCEPT !.has_vrc = FALSE], obs.frame.raw, obs.at).s
    IN [s EXCEPT !.has_vrc = TRUE]

\* the source, its queue as the callback of the last frame has filled it:
\* the events that waited before the frame, then the events of the frame
\* (the consumer may have taken them away meanwhile)
AfterFrame == [ws EXCEPT !.q = obs.pre.q \o obs.sent]

\* C18: when the pull of a periodic resync fails, the presence set, the name
\* cache and the pending flag are as the frame alone leaves them, no event
\* is enqueued for the resync, the connection stays up and the next resync
\* is one interval later.
C18_FailedResyncHarmless ==
    (obs.op = "on_message" /\ obs.due /\ obs.failed) =>
        /\ AfterFrame = [WithoutResync EXCEPT !.next_resync_at = obs.at + ws.cfg.periodic_rest_resync_sec]
        /\ run.pc = "connected"

----------------------------------------------------------------------------
\* Claims about the events and waits of the polling loop (SpecPoll)

\* the events the last pull enqueued
PollEvents == SubSeq(wt.q, obs.pre_qlen + 1, Len(wt.q))

\* an event of this kind for the single id u is among the events of the last pull
SingleEvent(kind, u) ==
    \E i \in DOMAIN PollEvents :
        PollEvents[i].kind = kind /\ EntryIds(PollEvents[i].entries) = {u}

\* C19: in each polling iteration after the first, an individual Offline
\* event is enqueued for every id of the previous pull that is absent now, an
\* individual Online event for every id that is new, and then a heartbeat
\* (stated for an iteration whose pull and the pull before it were answered
\* in full by the service).
C19_PerIdEvents ==
    (obs.op = "pull" /\ ~obs.failed /\ obs.pulled_before /\ ~obs.after_failed) =>
        /\ \A u \in obs.answer_before \ obs.pull_ids : SingleEvent(EVENT_OFFLINE, u)
        /\ \A u \in obs.pull_ids \ obs.answer_before : SingleEvent(EVENT_ONLINE, u)
        /\ PollEvents[Len(PollEvents)].kind = EVENT_HEARTBEAT

\* C20: when a pull raises, exactly one Error event is enqueued and the next
\* pull is made after the polling interval, as after a success.
C20_FixedRetry ==
    (obs.op = "pull" /\ obs.raised) =>
        /\ PollEvents = <<Ev(EVENT_ERROR, <<>>)>>
        /\ wt.wait = wt.interval

\* C21: a pull in which the directory query fails leaves the loop's
\* previous-online set as it was, and when the pulls answered before and
\* after a failed pull list the same ids, the pull after the failure
\* enqueues no online notification.
C21_FailedPullHarmless ==
    /\ (obs.op = "pull" /\ obs.failed) => wt.prev_online_ids = obs.pre_ids
    /\ (obs.op = "pull" /\ ~obs.failed /\ obs.after_failed /\ obs.answered_before
            /\ obs.pull_ids = obs.answer_before) => PollNotes = <<>>

----------------------------------------------------------------------------
\* Claims about single frames (SpecResync)

\* C23: a frame that is not JSON is discarded on its own: the presence set,
\* the name cache, the pending flag, the flush and resync timers and the
\* queue are as before the frame (no Online, Offline, Error or any other
\* event), and the connection stays open.
C23_NonJsonDiscarded ==
    (obs.op = "on_message" /\ obs.frame.cls = "bad") =>
        /\ ws = obs.pre
        /\ run.pc = "connected"

C23_Witness ==
    /\ obs.op = "on_message" /\ obs.frame.cls = "bad"
    /\ obs.pre.pending_changes
    /\ obs.pre.prev_online_ids # {}
    /\ obs.at >= obs.pre.next_resync_at
    /\ run.pc = "connected"

\* C28: when a periodic resync finds a set that differs from the presence
\* set, a list_update event carrying exactly the corrected set is enqueued,
\* whatever emit_legacy is.
C28_ResyncSnapshot ==
    (obs.op = "on_message" /\ obs.due /\ ~obs.failed
        /\ ws.prev_online_ids # WithoutResync.prev_online_ids) =>
        \E i \in DOMAIN obs.sent :
            /\ obs.sent[i].kind = EVENT_LIST_UPDATE
            /\ EntryIds(obs.sent[i].entries) = ws.prev_online_ids

\* the list_update events of the last frame, and the flush test as
\* _handle_one_event evaluates it once the frame's own event is applied
FrameSnapshots == SelectSeq(obs.sent, LAMBDA e : e.kind = EVENT_LIST_UPDATE)
PendingAtCheck == obs.pre.pending_changes \/ ws.prev_online_ids # obs.pre.prev_online_ids
FlushDue ==
    PendingAtCheck /\ obs.at - obs.pre.last_list_flush >= ws.cfg.list_flush_interval
Snapshot == Ev(EVENT_LIST_UPDATE, EntriesOf(ws, SortedSeq(ws.prev_online_ids)))

\* C30: the flush check of a frame enqueues a list_update exactly when
\* changes are pending and at least list_flush_interval has passed since the
\* last flush; the snapshot lists exactly the ids of the presence set, sorted
\* by id, with their last-known names, and the pending flag is cleared;
\* otherwise no list_update is enqueued and the flag is unchanged.
C30_FlushCheck ==
    (obs.op = "on_message" /\ ~obs.due /\ obs.frame.cls # "bad" /\ obs.frame.cls # "string") =>
        IF FlushDue
        THEN FrameSnapshots = <<Snapshot>> /\ ~ws.pending_changes
        ELSE FrameSnapshots = <<>> /\ ws.pending_changes = PendingAtCheck

\* C29: while the connection is open and a pull collaborator is given, the
\* resync is performed once its interval has elapsed, frames or no frames:
\* the clock never passes the time the next resync is due.
C29_ResyncOnTime ==
    (run.pc = "connected" /\ ws.has_vrc) => now <= ws.next_resync_at

----------------------------------------------------------------------------
\* Claims about the handlers and the notification bucket (SpecNotify)

\* the transition of the last handler call is accepted: the id is new to the
\* presence set (online) or leaves it (offline)
Accepted ==
    \/ obs.op = "online" /\ obs.uid \notin obs.pre.prev_online_ids
    \/ obs.op = "offline" /\ obs.uid \in obs.pre.prev_online_ids

HandlerEvents == NewEvents(obs.pre, ws)
HandlerEntry == <<Entry(obs.uid, name_of(obs.pre, obs.uid))>>

\* C25: every accepted online transition enqueues an Online event and every
\* accepted offline transition an Offline event, whatever the bucket holds;
\* an online_now event follows the Online event exactly when emit_legacy is
\* set and allow(1) grants a token, at most capacity online_now events are
\* enqueued between two refills of the bucket, and with emit_legacy false
\* the bucket is never touched.
C25_EventsNotGated ==
    /\ (Accepted /\ obs.op = "online") =>
          /\ HandlerEvents # <<>>
          /\ Head(HandlerEvents) = Ev(EVENT_ONLINE, HandlerEntry)
          /\ Tail(HandlerEvents) =
                IF ws.emit_legacy /\ allow(obs.pre.notify_bucket, 1, obs.at).ok
                THEN <<Ev(EVENT_ONLINE_NOW, HandlerEntry)>> ELSE <<>>
    /\ (Accepted /\ obs.op = "offline") =>
          /\ HandlerEvents = <<Ev(EVENT_OFFLINE, HandlerEntry)>>
          /\ ws.notify_bucket = obs.pre.notify_bucket
    /\ obs.in_window <= ws.cfg.notify_rate_per_min
    /\ ~ws.emit_legacy => ws.notify_bucket = TokenBucket(ws.cfg.notify_rate_per_min, 0)

C25_Witness ==
    /\ Accepted /\ obs.op = "online"
    /\ ws.emit_legacy
    /\ obs.pre.notify_bucket.tokens = 0 /\ obs.at < obs.pre.notify_bucket.reset_at
    /\ HandlerEvents = <<Ev(EVENT_ONLINE, HandlerEntry)>>
    /\ obs.in_window = 2

----------------------------------------------------------------------------
\* Claims about on_start and on_stop (SpecApp)

\* C22: when push mode is selected and the push URL is missing (empty, or
\* without an auth token), no supervisor is run for the session, so that no
\* connect/backoff cycle is entered, and the error is reported by on_start.
C22_MissingUrlFatal ==
    (app.mode = "ws" /\ ~UrlUsable(app.ws_url)) =>
        /\ run = NoRun
        /\ app.reported = "showerror"

\* C24: in polling mode with a filter selected, a polling driver runs for the
\* session and no id outside the filter enters its presence set.
C24_PollingFiltered ==
    (app.mode = "rest" /\ ~app.filter_ids.none /\ app._stop_event) =>
        /\ app._watcher
        /\ app.reported = "none"
        /\ wt # NoWatcher
        /\ wt.prev_online_ids \subseteq app.filter_ids.ids

\* C27: on_stop always returns: once it waits in join the stop signal is
\* set, it has waited at most JoinTimeout seconds, and it comes back with
\* the three globals cleared, whether the driver thread has ended or not.
C27_OnStopReturns ==
    /\ [](app.pc = "joining" => (stop_event /\ app.waited <= JoinTimeout))
    /\ [](obs.op \in {"on_stop", "on_stop_returned"} /\ app.pc = "idle"
            => (~app._watcher /\ ~app._ws_thread /\ ~app._stop_event))
    /\ (app.pc = "joining" ~> app.pc = "idle")

C27_Witness ==
    /\ obs.op = "on_stop_returned"
    /\ app.waited = JoinTimeout
    /\ run.pc = "connected" /\ stop_event
    /\ ~app._ws_thread /\ ~app._stop_event

----------------------------------------------------------------------------
\* Claims about the bounds of the bucket (SpecAllow)

\* C39: over every sequence of allow(n) calls with n >= 0 at non-decreasing
\* times, 0 <= tokens <= capacity, and allow(n) with n > capacity returns
\* false and leaves tokens as they were before the call.
C39_OversizedUntouched ==
    /\ 0 <= tb.tokens /\ tb.tokens <= tb.capacity
    /\ (obs.op = "allow" /\ obs.n > obs.pre.capacity) =>
          (~obs.ok /\ tb.tokens = obs.pre.tokens)

\* C39 as the code has it: 0 <= tokens <= capacity, and allow(n) with
\* n > capacity returns false and takes no token; the window reset at the
\* head of the call still happens when it is due, so that tokens are the
\* capacity after a call at or after reset_at and unchanged otherwise.
C39_OversizedRefused ==
    /\ 0 <= tb.tokens /\ tb.tokens <= tb.capacity
    /\ (obs.op = "allow" /\ obs.n > obs.pre.capacity) =>
          /\ ~obs.ok
          /\ tb.tokens = IF obs.at >= obs.pre.reset_at THEN obs.pre.capacity ELSE obs.pre.tokens

C39_Witness ==
    /\ obs.op = "allow" /\ obs.n > obs.pre.capacity /\ ~obs.ok
    /\ obs.at >= obs.pre.reset_at
    /\ obs.pre.tokens < obs.pre.capacity
    /\ tb.tokens = tb.capacity

----------------------------------------------------------------------------
\* Claims about failed pulls in the first run (SpecPoll)

\* C37: a pull that fails (the directory query raises, or one of its page
\* requests does) changes neither the first-run flag nor the previous-online
\* set, and with first_run_no_notify the first pull the service answers,
\* made after one or more failed pulls, enqueues no online notification,
\* records its ids as the baseline and ends the first run.
C37_SuppressionOutlastsFailures ==
    obs.op = "pull" =>
        /\ obs.failed =>
              (wt.first_run = obs.pre_first /\ wt.prev_online_ids = obs.pre_ids)
        /\ (~obs.failed /\ ~obs.answered_before /\ obs.pulled_before /\ wt.first_run_no_notify) =>
              /\ obs.pre_first
              /\ PollNotes = <<>>
              /\ wt.prev_online_ids = obs.pull_ids
              /\ ~wt.first_run

----------------------------------------------------------------------------
\* Claims about the name of an online event (SpecNorm)

\* the Online events of the last frame
OnlineEvents == SelectSeq(LastEvents, LAMBDA e : e.kind = EVENT_ONLINE)

\* C31: a payload that carries a name at the top level and a displayName in
\* its user sub-object yields the top-level name.
C31_TopLevelFirst ==
    (obs.op = "on_message" /\ obs.cls = "both") =>
        /\ ws.known_names[obs.uid] = NameOf[obs.uid]
        /\ \A i \in DOMAIN OnlineEvents : OnlineEvents[i] = Ev(EVENT_ONLINE, <<Entry(obs.uid, NameOf[obs.uid])>>)

\* C31 as the code has it: the displayName of the user sub-object takes
\* precedence, and the top-level name is used only when the payload has no
\* such sub-object name; a payload carrying both yields the nested name.
C31_NestedFirst ==
    /\ (obs.op = "on_message" /\ obs.cls \in {"both", "pipeline"}) =>
          /\ ws.known_names[obs.uid] = AltName
          /\ \A i \in DOMAIN OnlineEvents : OnlineEvents[i] = Ev(EVENT_ONLINE, <<Entry(obs.uid, AltName)>>)
    /\ (obs.op = "on_message" /\ obs.cls = "envelope") =>
          /\ ws.known_names[obs.uid] = NameOf[obs.uid]
          /\ \A i \in DOMAIN OnlineEvents : OnlineEvents[i] = Ev(EVENT_ONLINE, <<Entry(obs.uid, NameOf[obs.uid])>>)

C31_Witness ==
    /\ obs.op = "on_message" /\ obs.cls = "both"
    /\ obs.uid = "usr_2"
    /\ OnlineEvents = <<Ev(EVENT_ONLINE, <<Entry("usr_2", AltName)>>)>>
    /\ ws.known_names["usr_2"] = AltName

\* C32: a source that the application constructs for an empty favourite
\* group tracks no id: its presence set stays empty and no Online or Offline
\* event is enqueued.
C32_EmptyFilterTracksNothing ==
    (app.mode = "ws" /\ run # NoRun /\ app.filter_ids = FilterOf({})) =>
        /\ ws.prev_online_ids = {}
        /\ \A i \in DOMAIN ws.q : ws.q[i].kind \notin {EVENT_ONLINE, EVENT_OFFLINE}

\* C36: on_start with a mode other than "ws" ends with one polling driver
\* running: the constructor accepts the arguments and _watcher refers to the
\* started WatcherThread.
C36_PollingStarts ==
    (obs.op = "on_start" /\ app.mode # "ws") =>
        /\ app.reported = "none"
        /\ app._watcher
        /\ wt # NoWatcher

----------------------------------------------------------------------------
\* Claims about sessions started one after the other (SpecRestart)

\* C34: once on_stop has returned for a session, the driver of that session
\* puts no further event on the shared queue.
C34_NoLateEvents ==
    [][((Returned /\ obs'.op \in DriverOps) \/ obs'.op = "old_driver")
          => Len(ws'.q) <= Len(ws.q)]_vars

\* the drivers that are alive and whose stop signal is not set
UnsetDrivers ==
    (IF Alive /\ ~stop_event THEN 1 ELSE 0) + Cardinality({d \in app.old : ~d.stop})

\* C35: at most one driver is alive with its stop signal unset: the stop
\* signal of every driver of an earlier session is set, a session starts
\* with a stop signal of its own that is not set, after the signal of the
\* session before it was set, and a signal that is set is never cleared.
C35_OneLiveDriver ==
    /\ [](UnsetDrivers <= 1)
    /\ [](\A d \in app.old : d.stop)
    /\ [][obs'.op = "on_start" => (~stop_event' /\ (Alive => stop_event)
                                    /\ Abandoned \subseteq app'.old)]_vars
    /\ [][(stop_event /\ ~stop_event') => obs'.op = "on_start"]_vars

C35_Witness ==
    /\ run.pc = "connected" /\ ~stop_event
    /\ \E d \in app.old : d.run.pc = "connected" /\ d.stop

\* the steps taken by the main thread (on_start, on_stop and its join) and by
\* the consumer
OtherOps == {"on_start", "on_stop", "join_wait", "on_stop_returned", "consumed"}

----------------------------------------------------------------------------
\* Claims about the order of the events of one id (SpecOrder)

\* C33: in the events one session enqueues, the Online and Offline events
\* of each id alternate, beginning with an Online event, over push frames,
\* reconnects with their initial sync and periodic resyncs.
C33_EventsAlternate == obs.alternate

----------------------------------------------------------------------------
\* Claims about array frames (SpecArray)

\* the elements of an array frame that are objects, in their order
Objects(items) == SelectSeq(items, LAMBDA x : isinstance(x, "dict"))

\* each element received as a frame of its own, in order; the first comes
\* at time t, and each pull answers as pulls tells, the frames after it
\* coming at the time of its answer
RECURSIVE OneByOne(_, _, _, _)
OneByOne(s, items, t, pulls) ==
    IF items = <<>> THEN s
    ELSE LET p == _on_message(s, JEnc(Head(items)), t)
         IN IF p.pulling /\ pulls # <<>>
            THEN OneByOne(AfterResync(p.s, Pull(Head(pulls).srv, p.s.filter_ids), t, <<>>,
                                      Head(pulls).at).s,
                          Tail(items), Head(pulls).at, Tail(pulls))
            ELSE OneByOne(p.s, Tail(items), t, pulls)

ArrayItems == obs.frame.raw.enc.items

ArrayHandled == obs.op = "on_message" /\ obs.frame.cls \in {"array", "empty"}

\* the source, its queue as the callback of the last frame has filled it
\* (the consumer may have taken events away meanwhile)
AfterArray == [ws EXCEPT !.q = obs.pre.q \o obs.sent]

\* C38: an array frame leaves the source (presence set, name cache, pending
\* flag and the rest of its state) as its object elements do when they arrive
\* one by one as frames of their own, in the same order and at the same
\* instants, and it enqueues the same events in the same order; the
\* elements that are not objects change nothing.
C38_ArrayAsSingles ==
    ArrayHandled =>
        /\ AfterArray = OneByOne(obs.pre, Objects(ArrayItems), obs.at, obs.pulls)
        /\ Objects(ArrayItems) = <<>> => AfterArray = obs.pre

\* an array of an online and an offline object of a friend who was absent
\* has enqueued both events, each with its heartbeat, a resync running
\* between the two
C38_Witness ==
    /\ ArrayHandled
    /\ Len(Objects(ArrayItems)) = 2
    /\ Len(obs.pulls) = 1
    /\ CountKind(obs.sent, EVENT_ONLINE) = 1
    /\ CountKind(obs.sent, EVENT_OFFLINE) = 1
    /\ CountKind(obs.sent, HEARTBEAT.kind) = 2

\* an array whose only object follows two elements that are not: the
\* object alone has acted
C38_WitnessNested ==
    /\ ArrayHandled
    /\ obs.frame = NestedArray
    /\ "usr_1" \in obs.pre.prev_online_ids
    /\ "usr_1" \notin ws.prev_online_ids
    /\ "usr_2" \notin ws.prev_online_ids

====
